---- MODULE Spec2Model ----
(***************************************************************************)
(* A model of the prepared-statement cache of the query engine             *)
(* (src/prepareds/prepareds.go) and of the operations built on it.         *)
(*                                                                         *)
(* The generic LRU cache util.GenCache, util.TestAndSetUint64 and          *)
(* util.UUIDV5 are used by the cache but their code is not part of the     *)
(* sources at hand: GenCache* / TestAndSet* / UUIDV5 below follow the      *)
(* written specification (a bounded map with one LRU list, eviction from   *)
(* the LRU end, Use promotes and Get does not).                            *)
(***************************************************************************)
EXTENDS Integers, Sequences, FiniteSets, TLC

(***************************************************************************)
(* Bounds of the model.                                                    *)
(***************************************************************************)
MaxLimit == 2        \* largest cache capacity that is configured
MaxUses == 2         \* tracked uses of one entry that are explored
MaxClock == 1        \* time.Now() returns a value in 1..MaxClock
MaxSchema == 2       \* the datastore's schema goes through 1..MaxSchema
MaxSample == 2       \* durations recorded are 1..MaxSample
WordBits == 6        \* width of the unsigned timing counters in the model
MaxTotal == 2        \* sums of recorded durations explored under calls made one at a time
NumRecorders == 2    \* requests recording their durations at the same time
MaxCalls == 2        \* calls of RecordPreparedMetrics on one entry
MaxNamed == 2        \* calls of GetAutoPrepareName that are compared
NumRequests == 3     \* requests preparing their statements at the same time
NumLookups == 2      \* requests looking one statement up with VERIFY at the same time
ScanCap == 2         \* capacity of the channel the child scans send to
MaxScanLimit == 2    \* largest limit pushed down to an IntersectScan
MaxRunOnce == 2      \* calls of RunOnce on one IntersectScan
MaxPoolSize == 2     \* largest size a StringValuePool is made with
MaxHeld == 2         \* maps of a StringValuePool, in use or held by the pool
MaxOperands == 3     \* most operands given to a conditional function
MaxParallel == 2     \* largest maxParallelism of a Parallel operator
MaxIndexers == 2     \* most indexers of a keyspace
MaxPrimaries == 2    \* most primary indexes of an indexer
MaxCollation == 6    \* values of the collation order: 0 MISSING, 1 NULL, then the others
MaxTerms == 3        \* most result terms of a projection
MaxSortTerms == 2    \* most terms of an ORDER BY

Names == {"p1", "p2", "p3"}
Texts == {"SELECT 1", "SELECT 2"}

(***************************************************************************)
(* State.                                                                  *)
(***************************************************************************)
VARIABLES
    lru,        \* GenCache: the names cached, most recently used first
    entries,    \* GenCache: name -> CacheEntry
    limit,      \* GenCache: the configured capacity
    schema,     \* the datastore: version of its keyspaces and indexes
    res,        \* outcome of the last call of the cache's interface
    recent      \* history: the cached names, last inserted or tracked first

cacheVars == <<lru, entries, limit, schema, res, recent>>

VARIABLES
    rec,        \* the calls of RecordPreparedMetrics under way, one per request
    sampled     \* history: what the calls started so far have to record

metricVars == <<rec, sampled>>

VARIABLES
    named,      \* the calls of GetAutoPrepareName made, with the names they returned
    req         \* the requests in Context.PrepareStatement, one record per request

autoVars == <<named, req>>

VARIABLES
    pending,    \* the broadcasts to the peers that are scheduled and not yet made
    prime,      \* PreparedsRemotePrime: its position and what it did so far
    scan        \* IntersectScan: the operator, its children and their channel

VARIABLES
    pool,       \* StringValuePool: its size and the maps it holds
    call        \* the last call of a function of the engine: its inputs and result

libVars == <<pool, call>>

restVars == <<prime, scan, libVars>>

vars == <<cacheVars, metricVars, autoVars, pending, restVars>>

(***************************************************************************)
(* Values.                                                                 *)
(***************************************************************************)
\* math.MaxUint64, the sentinel the minima start from, at the model's width
MaxUint64 == 2^WordBits - 1

\* (options & OPT_x) != 0
OPT_TRACK == "TRACK"
OPT_REMOTE == "REMOTE"
OPT_VERIFY == "VERIFY"
OPT_METACHECK == "METACHECK"

\* error codes; NoError is a nil errors.Error
NoError == "nil"
NO_SUCH_PREPARED == "NoSuchPrepared"
PREPARED_NAME == "PreparedNameError"
PREPARED_DECODING == "PreparedDecodingError"
ENCODING_NAME_MISMATCH == "EncodingNameMismatch"
PREPARED_ENCODING_MISMATCH == "PreparedEncodingMismatch"
REPREPARE == "ReprepareError"
NOT_ADDED == "false"

\* a nil *plan.Prepared
NilPlan == [nil |-> TRUE]

\* the type of the statement of a text (stmt.Type())
TypeOf(text) ==
    IF text = "" THEN ""
    ELSE IF text = "UPDATE t SET a = 1" THEN "UPDATE"
    ELSE IF text = "EXECUTE p1" THEN "EXECUTE"
    ELSE "SELECT"

\* plan.Prepared: name, statement text, type, the plan tree (identified by
\* the schema version it was built for), index API version, feature controls
Prepared(name, text, ver, api, fc) ==
    [Name |-> name, Text |-> text, Type |-> TypeOf(text), Ver |-> ver,
     IndexApiVersion |-> api, FeatureControls |-> fc]

\* The message of NewPreparedNameError in AddPrepared
DuplicateName(name) == "duplicate name: " \o name

(***************************************************************************)
(* util.GenCache: a bounded map with one LRU list.                         *)
(***************************************************************************)
Cache == [lru |-> lru, entries |-> entries, limit |-> limit]

Cached(c) == DOMAIN c.entries

Without(s, id) == SelectSeq(s, LAMBDA n : n # id)

\* move an element to the most-recently-used end
Promote(s, id) == <<id>> \o Without(s, id)

\* drop the least recently used element
DitchLRU(c) ==
    IF c.lru = <<>> THEN c
    ELSE LET victim == c.lru[Len(c.lru)]
         IN [c EXCEPT !.lru = SubSeq(c.lru, 1, Len(c.lru) - 1),
                      !.entries = [n \in DOMAIN c.entries \ {victim} |-> c.entries[n]]]

\* GenCache.Add: op is what the caller's process function answered for the
\* entry already there, amended is that entry as the function left it
GenCacheAdd(c, entry, id, op, amended) ==
    IF id \in Cached(c)
    THEN IF op = "AMEND"
         THEN [c EXCEPT !.entries[id] = amended, !.lru = Promote(c.lru, id)]
         ELSE c
    ELSE LET room == IF Len(c.lru) >= c.limit THEN DitchLRU(c) ELSE c
         IN [room EXCEPT !.lru = <<id>> \o room.lru,
                         !.entries = [n \in DOMAIN room.entries \cup {id} |->
                                        IF n = id THEN entry ELSE room.entries[n]]]

\* GenCache.Use: the lookup that promotes
GenCacheUse(c, id) ==
    IF id \in Cached(c) THEN [c EXCEPT !.lru = Promote(c.lru, id)] ELSE c

\* GenCache.Delete
GenCacheDelete(c, id) ==
    [c EXCEPT !.lru = Without(c.lru, id),
              !.entries = [n \in DOMAIN c.entries \ {id} |-> c.entries[n]]]

\* GenCache.SetLimit: set the limit, then evict from the LRU end
RECURSIVE Shrink(_)
Shrink(c) == IF Len(c.lru) > c.limit THEN Shrink(DitchLRU(c)) ELSE c

GenCacheSetLimit(c, k) == Shrink([c EXCEPT !.limit = k])

(***************************************************************************)
(* preparedCache                                                           *)
(***************************************************************************)
\* NewEntry, leaving the minima at the zero value of the struct
NewEntryZeroMinima(prepared, populated, track, when) ==
    [Prepared |-> prepared,
     LastUse |-> IF track THEN when ELSE 0,
     Uses |-> IF track THEN 1 ELSE 0,
     ServiceTime |-> 0, RequestTime |-> 0,
     MinServiceTime |-> 0, MinRequestTime |-> 0,
     MaxServiceTime |-> 0, MaxRequestTime |-> 0,
     populated |-> populated]

\* the CacheEntry preparedCache.add builds
NewEntry(prepared, populated, track, when) ==
    [Prepared |-> prepared,
     LastUse |-> IF track THEN when ELSE 0,
     Uses |-> IF track THEN 1 ELSE 0,
     ServiceTime |-> 0, RequestTime |-> 0,
     MinServiceTime |-> MaxUint64, MinRequestTime |-> MaxUint64,
     MaxServiceTime |-> 0, MaxRequestTime |-> 0,
     populated |-> populated]

\* Amend, forgetting to install the new plan
AmendKeepsPlan(oldEntry, prepared, track, when) ==
    [oldEntry EXCEPT !.populated = FALSE,
                     !.Uses = IF track THEN @ + 1 ELSE @,
                     !.LastUse = IF track THEN when ELSE @]

\* Amend, putting a new entry in the place of the old one
AmendReplacesEntry(oldEntry, prepared, track, when) ==
    [Prepared |-> prepared,
     LastUse |-> IF track THEN when ELSE 0,
     Uses |-> IF track THEN 1 ELSE 0,
     ServiceTime |-> 0, RequestTime |-> 0,
     MinServiceTime |-> MaxUint64, MinRequestTime |-> MaxUint64,
     MaxServiceTime |-> 0, MaxRequestTime |-> 0,
     populated |-> FALSE]

\* Amend, not counting the use of a tracked add
AmendUntracked(oldEntry, prepared, track, when) ==
    [oldEntry EXCEPT !.Prepared = prepared,
                     !.populated = FALSE]

\* what the function add hands to GenCache.Add does to the existing entry
Amend(oldEntry, prepared, track, when) ==
    [oldEntry EXCEPT !.Prepared = prepared,
                     !.populated = FALSE,
                     !.Uses = IF track THEN @ + 1 ELSE @,
                     !.LastUse = IF track THEN when ELSE @]

\* add, amending the existing entry whatever process answers
addAmendingAlways(c, prepared, populated, track, when, cont) ==
    LET id == prepared.Name
        ce == NewEntry(prepared, populated, track, when)
    IN IF id \in Cached(c)
       THEN GenCacheAdd(c, ce, id, "AMEND", Amend(c.entries[id], prepared, track, when))
       ELSE GenCacheAdd(c, ce, id, "AMEND", ce)

\* preparedCache.add; cont is the answer of process for the existing entry
add(c, prepared, populated, track, when, cont) ==
    LET id == prepared.Name
        ce == NewEntry(prepared, populated, track, when)
    IN IF id \in Cached(c)
       THEN GenCacheAdd(c, ce, id, IF cont THEN "AMEND" ELSE "IGNORE",
                        Amend(c.entries[id], prepared, track, when))
       ELSE GenCacheAdd(c, ce, id, "AMEND", ce)

\* get, taking GenCache.Use whether or not the lookup tracks
getAlwaysPromotes(c, name, track, when) ==
    IF name = "" \/ name \notin Cached(c) THEN c
    ELSE IF ~track THEN GenCacheUse(c, name)
    ELSE [GenCacheUse(c, name) EXCEPT !.entries[name].Uses = @ + 1,
                                      !.entries[name].LastUse = when]

\* get, counting the use whether or not the lookup tracks
getAlwaysCounts(c, name, track, when) ==
    IF name = "" \/ name \notin Cached(c) THEN c
    ELSE LET used == IF track THEN GenCacheUse(c, name) ELSE c
         IN [used EXCEPT !.entries[name].Uses = @ + 1,
                         !.entries[name].LastUse = IF track THEN when ELSE @]

\* preparedCache.get: the cache after the lookup
get(c, name, track, when) ==
    IF name = "" \/ name \notin Cached(c) \/ ~track THEN c
    ELSE LET used == GenCacheUse(c, name)
         IN [used EXCEPT !.entries[name].Uses = @ + 1,
                         !.entries[name].LastUse = when]

\* the process function of AddPrepared, accepting any text
AddPreparedProcessAnyText(ce, prepared) == TRUE

\* the process function of AddPrepared
AddPreparedProcess(ce, prepared) == ce.Prepared.Text = prepared.Text

\* plan.Prepared.Verify and MetadataCheck against the datastore
Verify(prepared) == prepared.Ver = schema

MetadataCheck(prepared) == prepared.Ver = schema

\* what planner.BuildPrepared returns to reprepare for a text: a plan for
\* the current datastore, whose name, text, type, index API version and
\* feature controls are the planner's
Built(text) ==
    [Name |-> "", Text |-> "", Type |-> TypeOf(text), Ver |-> schema,
     IndexApiVersion |-> 0, FeatureControls |-> 0]

\* reprepare, leaving the feature controls as the planner set them
reprepareOfWithoutFeatureControls(prepared, pl) ==
    [pl EXCEPT !.Name = prepared.Name,
               !.Text = prepared.Text,
               !.Type = prepared.Type,
               !.IndexApiVersion = prepared.IndexApiVersion]

\* reprepare once parsing and planning have succeeded and returned pl:
\* SetName, SetText, SetType, SetIndexApiVersion, SetFeatureControls
reprepareOf(prepared, pl) ==
    [pl EXCEPT !.Name = prepared.Name,
               !.Text = prepared.Text,
               !.Type = prepared.Type,
               !.IndexApiVersion = prepared.IndexApiVersion,
               !.FeatureControls = prepared.FeatureControls]

\* reprepare: plan the same text again, against the current datastore
reprepare(prepared) == reprepareOf(prepared, Built(prepared.Text))

\* a call's returned values, as the operators below compute them
Outcome(c, err, msg, plan, bcast) ==
    [c |-> c, err |-> err, msg |-> msg, plan |-> plan, bcast |-> bcast]

(***************************************************************************)
(* The cache's interface, as functions of the cache.                       *)
(***************************************************************************)
\* AddPrepared: distributePrepared is scheduled exactly when added
DoAddPrepared(c, prepared) ==
    LET added == prepared.Name \in Cached(c)
                   => AddPreparedProcess(c.entries[prepared.Name], prepared)
        c1 == add(c, prepared, FALSE, FALSE, 0, added)
    IN IF ~added
       THEN Outcome(c1, PREPARED_NAME, DuplicateName(prepared.Name), NilPlan, FALSE)
       ELSE Outcome(c1, NoError, "", prepared, TRUE)

\* DeletePrepared
DoDeletePrepared(c, name) ==
    IF name \in Cached(c)
    THEN Outcome(GenCacheDelete(c, name), NoError, "", NilPlan, FALSE)
    ELSE Outcome(GenCacheDelete(c, name), NO_SUCH_PREPARED, name, NilPlan, FALSE)

\* the verification step, taking a populated entry's plan as good
VerifiedOncePopulated(c, name, prepared, metaCheck) ==
    LET ce == c.entries[name]
    IN IF ce.populated
       THEN [good |-> TRUE, c |-> c]
       ELSE [good |-> Verify(prepared),
             c |-> [c EXCEPT !.entries[name].populated = Verify(prepared)]]

\* the verification step of getPrepared (the branch "prepared != nil &&
\* verify") for the plan read from the entry: good, and the cache with the
\* populated flag as it leaves it
Verified(c, name, prepared, metaCheck) ==
    LET ce == c.entries[name]
    IN IF ce.populated
       THEN [good |-> MetadataCheck(prepared)
                        \/ (~metaCheck /\ Verify(prepared)),
             c |-> c]
       ELSE [good |-> Verify(prepared),
             c |-> [c EXCEPT !.entries[name].populated = Verify(prepared)]]

\* preparedCache.getPrepared for a string key naming no other host:
\* repOK says whether a reprepare, if one is needed, succeeds
getPrepared(c, name, options, when, repOK) ==
    LET track == OPT_TRACK \in options
        verify == options \cap {OPT_VERIFY, OPT_METACHECK} # {}
        metaCheck == OPT_METACHECK \in options
        found == name # "" /\ name \in Cached(c)
        c1 == get(c, name, track, when)
    IN IF ~found
       THEN Outcome(c1, NO_SUCH_PREPARED, name, NilPlan, FALSE)
       ELSE IF ~verify
       THEN Outcome(c1, NoError, "", c1.entries[name].Prepared, FALSE)
       ELSE LET prepared == c1.entries[name].Prepared
                v == Verified(c1, name, prepared, metaCheck)
            IN IF v.good \/ metaCheck
               THEN Outcome(v.c, NoError, "", prepared, FALSE)
               ELSE IF ~repOK
               THEN Outcome(v.c, REPREPARE, "", NilPlan, FALSE)
               ELSE LET a == DoAddPrepared(v.c, reprepare(prepared))
                    IN IF a.err # NoError
                       THEN Outcome(a.c, a.err, a.msg, NilPlan, a.bcast)
                       ELSE Outcome(a.c, NoError, "", reprepare(prepared), a.bcast)

\* distributed.RemoteAccess().WhoAmI(), and the hosts a key may name
WhoAmI == "n1"

Hosts == {"", "n1", "n2"}

\* what GetRemoteDoc hands to its callback: nothing (the peer does not
\* answer, has no such statement, or the document has no encoded_plan)
NoDoc == [kind |-> "none"]

\* the process function of DecodePrepared (a decoded plan is a new object,
\* never the one the entry holds)
DecodeProcess(oldEntry, prepared) == oldEntry.Prepared.Text = prepared.Text

\* unmarshalPrepared: enc is what the base64 and gzip layers deliver
unmarshalPrepared(enc, repOK) ==
    IF enc.kind = "plan" THEN enc.plan
    ELSE IF enc.kind = "text" /\ repOK
    THEN reprepare([Prepared("", enc.text, 0, 0, 0) EXCEPT !.Type = ""])
    ELSE NilPlan

\* DecodePrepared, distributing whatever it was asked
DoDecodePreparedAlwaysDistributing(c, prepared_name, enc, track, distribute, when, repOK) ==
    LET decoded == unmarshalPrepared(enc, repOK)
    IN IF enc.kind = "bad" \/ decoded = NilPlan
       THEN Outcome(c, PREPARED_DECODING, "", NilPlan, FALSE)
       ELSE IF decoded.Name # "" /\ prepared_name # "" /\ prepared_name # decoded.Name
       THEN Outcome(c, ENCODING_NAME_MISMATCH, prepared_name, NilPlan, FALSE)
       ELSE IF decoded.Name = ""
       THEN Outcome(c, NoError, "", decoded, FALSE)
       ELSE LET good == Verify(decoded)
                prepared == IF good THEN decoded ELSE reprepare(decoded)
                added == prepared.Name \in Cached(c)
                           => DecodeProcess(c.entries[prepared.Name], prepared)
            IN IF ~good /\ ~repOK
               THEN Outcome(c, REPREPARE, "", NilPlan, FALSE)
               ELSE IF added
               THEN Outcome(add(c, prepared, good, track, when, added),
                            NoError, "", prepared, TRUE)
               ELSE Outcome(add(c, prepared, good, track, when, added),
                            PREPARED_ENCODING_MISMATCH, prepared_name, NilPlan, FALSE)

\* DecodePrepared, checking the declared name only after the plan has been
\* verified or prepared again
DoDecodePreparedVerifyingFirst(c, prepared_name, enc, track, distribute, when, repOK) ==
    LET decoded == unmarshalPrepared(enc, repOK)
    IN IF enc.kind = "bad" \/ decoded = NilPlan
       THEN Outcome(c, PREPARED_DECODING, "", NilPlan, FALSE)
       ELSE IF decoded.Name = ""
       THEN Outcome(c, NoError, "", decoded, FALSE)
       ELSE LET good == Verify(decoded)
                prepared == IF good THEN decoded ELSE reprepare(decoded)
                added == prepared.Name \in Cached(c)
                           => DecodeProcess(c.entries[prepared.Name], prepared)
            IN IF ~good /\ ~repOK
               THEN Outcome(c, REPREPARE, "", NilPlan, FALSE)
               ELSE IF prepared_name # "" /\ prepared_name # decoded.Name
               THEN Outcome(c, ENCODING_NAME_MISMATCH, prepared_name, NilPlan, FALSE)
               ELSE IF added
               THEN Outcome(add(c, prepared, good, track, when, added),
                            NoError, "", prepared, distribute)
               ELSE Outcome(add(c, prepared, good, track, when, added),
                            PREPARED_ENCODING_MISMATCH, prepared_name, NilPlan, FALSE)

\* DecodePrepared(prepared_name, prepared_stmt, track, distribute)
DoDecodePrepared(c, prepared_name, enc, track, distribute, when, repOK) ==
    LET decoded == unmarshalPrepared(enc, repOK)
    IN IF enc.kind = "bad" \/ decoded = NilPlan
       THEN Outcome(c, PREPARED_DECODING, "", NilPlan, FALSE)
       ELSE IF decoded.Name # "" /\ prepared_name # "" /\ prepared_name # decoded.Name
       THEN Outcome(c, ENCODING_NAME_MISMATCH, prepared_name, NilPlan, FALSE)
       ELSE IF decoded.Name = ""
       THEN Outcome(c, NoError, "", decoded, FALSE)
       ELSE LET good == Verify(decoded)
                prepared == IF good THEN decoded ELSE reprepare(decoded)
                added == prepared.Name \in Cached(c)
                           => DecodeProcess(c.entries[prepared.Name], prepared)
            IN IF ~good /\ ~repOK
               THEN Outcome(c, REPREPARE, "", NilPlan, FALSE)
               ELSE IF added
               THEN Outcome(add(c, prepared, good, track, when, added),
                            NoError, "", prepared, distribute)
               ELSE Outcome(add(c, prepared, good, track, when, added),
                            PREPARED_ENCODING_MISMATCH, prepared_name, NilPlan, FALSE)

\* fmt's %x: lower-case hexadecimal, a minus sign before a negative int
HexDigits == <<"0", "1", "2", "3", "4", "5", "6", "7",
               "8", "9", "a", "b", "c", "d", "e", "f">>

RECURSIVE Hex(_)
Hex(n) ==
    IF n < 0 THEN "-" \o Hex(-n)
    ELSE IF n < Len(HexDigits) THEN HexDigits[n + 1]
    ELSE Hex(n \div Len(HexDigits)) \o HexDigits[(n % Len(HexDigits)) + 1]

\* the realm, written without the separator
RealmUnseparated(indexApiVersion, featureControls) ==
    Hex(indexApiVersion) \o Hex(featureControls)

\* realm := fmt.Sprintf("%x_%x", indexApiVersion, featureControls)
Realm(indexApiVersion, featureControls) ==
    Hex(indexApiVersion) \o "_" \o Hex(featureControls)

\* util.UUIDV5: the digest of the space followed by the data, taken to be
\* free of collisions and so standing for what it digests
UUIDV5(space, data) == space \o data

\* GetAutoPrepareName(text, indexApiVersion, featureControls)
DoGetAutoPrepareName(text, indexApiVersion, featureControls) ==
    UUIDV5(Realm(indexApiVersion, featureControls), text)

\* preparedCache.getPrepared for a string key host::name; doc is what the
\* peer named by host would answer. fetched says that the peer was asked
getPreparedOfKey(c, host, name, options, doc, when, repOK) ==
    LET track == OPT_TRACK \in options
        remote == OPT_REMOTE \in options
        found == name # "" /\ name \in Cached(c)
        c1 == get(c, name, track, when)
    IN IF ~found /\ remote /\ host # "" /\ host # WhoAmI
       THEN IF doc = NoDoc
            THEN Outcome(c1, NO_SUCH_PREPARED, name, NilPlan, FALSE) @@ [fetched |-> TRUE]
            ELSE DoDecodePrepared(c1, name, doc, FALSE, FALSE, when, repOK)
                    @@ [fetched |-> TRUE]
       ELSE getPrepared(c, name, options, when, repOK) @@ [fetched |-> FALSE]

\* the process function of AddAutoPreparePlan
AutoPrepareProcess(ce, prepared) == ce.Prepared.Text = prepared.Text

\* AddAutoPreparePlan, caching statements of any type and with parameters
DoAddAutoPreparePlanOfAnyStatement(c, stmtType, params, prepared, when) ==
    LET added == prepared.Name \in Cached(c)
                   => AutoPrepareProcess(c.entries[prepared.Name], prepared)
    IN [c |-> add(c, prepared, FALSE, TRUE, when, added), added |-> added]

\* AddAutoPreparePlan(stmt, prepared): stmtType and params are stmt.Type()
\* and stmt.Params(); the answer is the function's boolean
DoAddAutoPreparePlan(c, stmtType, params, prepared, when) ==
    IF stmtType \in {"EXPLAIN", "EXECUTE", "PREPARE", ""} \/ params > 0
    THEN [c |-> c, added |-> FALSE]
    ELSE LET added == prepared.Name \in Cached(c)
                        => AutoPrepareProcess(c.entries[prepared.Name], prepared)
         IN [c |-> add(c, prepared, FALSE, TRUE, when, added), added |-> added]

\* GetAutoPreparePlan(name, text, indexApiVersion, featureControls)
DoGetAutoPreparePlan(c, name, text, indexApiVersion, featureControls, when) ==
    LET g == getPrepared(c, name, {OPT_TRACK, OPT_METACHECK}, when, FALSE)
    IN IF g.err # NoError THEN [g EXCEPT !.plan = NilPlan]
       ELSE IF text # g.plan.Text THEN [g EXCEPT !.plan = NilPlan]
       ELSE IF g.plan.IndexApiVersion # indexApiVersion
               \/ g.plan.FeatureControls # featureControls
       THEN [g EXCEPT !.plan = NilPlan]
       ELSE g

(***************************************************************************)
(* Timing counters.                                                        *)
(***************************************************************************)
\* atomic.AddUint64
AddUint64(old, delta) == (old + delta) % 2^WordBits

\* the tests RecordPreparedMetrics hands to util.TestAndSetUint64
\* the test of the minima, installing whatever differs
TestMinAnyOther(old, new) == old # new

TestMin(old, new) == old > new

TestMax(old, new) == old < new

\* util.TestAndSetUint64 run without interference, for a minimum and a maximum
TestAndSetMin(old, new) == IF TestMin(old, new) THEN new ELSE old

TestAndSetMax(old, new) == IF TestMax(old, new) THEN new ELSE old

\* what the function RecordPreparedMetrics hands to GenCache.Get does to the
\* entry when nothing else touches the entry meanwhile
Record(ce, requestTime, serviceTime) ==
    [ce EXCEPT !.ServiceTime = AddUint64(@, serviceTime),
               !.MinServiceTime = TestAndSetMin(@, serviceTime),
               !.MaxServiceTime = TestAndSetMax(@, serviceTime),
               !.RequestTime = AddUint64(@, requestTime),
               !.MinRequestTime = TestAndSetMin(@, requestTime),
               !.MaxRequestTime = TestAndSetMax(@, requestTime)]

\* RecordPreparedMetrics(prepared, requestTime, serviceTime)
DoRecordPreparedMetrics(c, prepared, requestTime, serviceTime) ==
    IF prepared = NilPlan THEN c
    ELSE IF prepared.Name = "" \/ prepared.Name \notin Cached(c) THEN c
    ELSE [c EXCEPT !.entries[prepared.Name] = Record(@, requestTime, serviceTime)]

(***************************************************************************)
(* The history variable recent is kept apart from the cache: it lists the  *)
(* names cached by the time they were last inserted (or replaced) or       *)
(* looked up with tracking, and drops from its far end.                    *)
(***************************************************************************)
Min(a, b) == IF a < b THEN a ELSE b

Max(a, b) == IF a > b THEN a ELSE b

Touched(r, name, cap) ==
    LET r1 == <<name>> \o Without(r, name)
    IN SubSeq(r1, 1, Min(Len(r1), cap))

\* the history after a call of outcome o that inserts or replaces name when
\* it succeeds
AfterInsert(name, o) ==
    IF o.err = NoError /\ name # "" THEN Touched(recent, name, limit) ELSE recent

(***************************************************************************)
(* Calls of the interface, one action per call.                            *)
(***************************************************************************)
\* distributePrepared(name, plan) when a call of outcome o schedules it: the
\* go statement leaves DoRemoteOps to be run later
Distributed(o) ==
    IF o.bcast /\ pending.on
    THEN [pending EXCEPT !.msgs = @ \cup {[name |-> o.plan.Name, plan |-> o.plan]}]
    ELSE pending

\* the record of a call: what was called, what it returned, whether it
\* scheduled a broadcast, and the cache's order when it was made
Result(op, name, o) ==
    [op |-> op, name |-> name, err |-> o.err, msg |-> o.msg, plan |-> o.plan,
     bcast |-> o.bcast, before |-> lru]

SetCache(c) ==
    /\ lru' = c.lru
    /\ entries' = c.entries
    /\ limit' = c.limit

\* a tracked use is explored while the entry's counter is below MaxUses
UsesBelowMax(name) == name \in Cached(Cache) => entries[name].Uses < MaxUses

AddPrepared(prepared) ==
    LET o == DoAddPrepared(Cache, prepared)
    IN /\ SetCache(o.c)
       /\ res' = Result("AddPrepared", prepared.Name, o)
       /\ recent' = AfterInsert(prepared.Name, o)
       /\ pending' = Distributed(o)
       /\ UNCHANGED <<schema, metricVars, autoVars, restVars>>

DeletePrepared(name) ==
    LET o == DoDeletePrepared(Cache, name)
    IN /\ SetCache(o.c)
       /\ res' = Result("DeletePrepared", name, o)
       /\ recent' = Without(recent, name)
       /\ UNCHANGED <<schema, metricVars, autoVars, pending, restVars>>

GetPrepared(name, options, when, repOK) ==
    LET o == getPrepared(Cache, name, options, when, repOK)
    IN /\ OPT_TRACK \in options => UsesBelowMax(name)
       /\ SetCache(o.c)
       /\ res' = Result("GetPrepared", name, o)
       /\ recent' = IF name \in Cached(Cache) /\ (OPT_TRACK \in options \/ o.bcast)
                    THEN Touched(recent, name, limit) ELSE recent
       /\ pending' = Distributed(o)
       /\ UNCHANGED <<schema, metricVars, autoVars, restVars>>

DecodePrepared(prepared_name, enc, track, distribute, when, repOK) ==
    LET o == DoDecodePrepared(Cache, prepared_name, enc, track, distribute, when, repOK)
    IN /\ (track /\ enc.kind = "plan") => UsesBelowMax(enc.plan.Name)
       /\ SetCache(o.c)
       /\ res' = Result("DecodePrepared", prepared_name, o)
       /\ recent' = IF o.plan = NilPlan THEN recent ELSE AfterInsert(o.plan.Name, o)
       /\ pending' = Distributed(o)
       /\ UNCHANGED <<schema, metricVars, autoVars, restVars>>

AddAutoPreparePlan(stmtType, params, prepared, when) ==
    LET a == DoAddAutoPreparePlan(Cache, stmtType, params, prepared, when)
        o == Outcome(a.c, IF a.added THEN NoError ELSE NOT_ADDED, "", NilPlan, FALSE)
    IN /\ UsesBelowMax(prepared.Name)
       /\ SetCache(a.c)
       /\ res' = Result("AddAutoPreparePlan", prepared.Name, o)
       /\ recent' = IF a.c = Cache THEN recent ELSE AfterInsert(prepared.Name, o)
       /\ UNCHANGED <<schema, metricVars, autoVars, pending, restVars>>

GetAutoPreparePlan(name, text, indexApiVersion, featureControls, when) ==
    LET o == DoGetAutoPreparePlan(Cache, name, text, indexApiVersion,
                                  featureControls, when)
    IN /\ UsesBelowMax(name)
       /\ SetCache(o.c)
       /\ res' = Result("GetAutoPreparePlan", name, o)
       /\ recent' = IF name \in Cached(Cache)
                    THEN Touched(recent, name, limit) ELSE recent
       /\ UNCHANGED <<schema, metricVars, autoVars, pending, restVars>>

\* GetPrepared for a key that names a host
GetPreparedOfKey(host, name, options, doc, when, repOK) ==
    LET o == getPreparedOfKey(Cache, host, name, options, doc, when, repOK)
    IN /\ OPT_TRACK \in options => UsesBelowMax(name)
       /\ SetCache(o.c)
       /\ res' = [op |-> "GetPreparedOfKey", name |-> name, err |-> o.err,
                  msg |-> o.msg, plan |-> o.plan, bcast |-> o.bcast, before |-> lru,
                  host |-> host, fetched |-> o.fetched, options |-> options]
       /\ recent' = IF o.fetched
                    THEN (IF o.plan = NilPlan THEN recent ELSE AfterInsert(o.plan.Name, o))
                    ELSE IF name \in Cached(Cache) /\ (OPT_TRACK \in options \/ o.bcast)
                    THEN Touched(recent, name, limit) ELSE recent
       /\ pending' = Distributed(o)
       /\ UNCHANGED <<schema, metricVars, autoVars, restVars>>

\* PreparedsSetLimit, storing the limit without going through SetLimit
PreparedsSetLimitStoresOnly(k) ==
    /\ SetCache([Cache EXCEPT !.limit = k])
    /\ res' = Result("PreparedsSetLimit", "", Outcome(Cache, NoError, "", NilPlan, FALSE))
    /\ recent' = SubSeq(recent, 1, Min(Len(recent), k))
    /\ UNCHANGED <<schema, metricVars, autoVars, pending, restVars>>

PreparedsSetLimit(k) ==
    /\ SetCache(GenCacheSetLimit(Cache, k))
    /\ res' = Result("PreparedsSetLimit", "", Outcome(Cache, NoError, "", NilPlan, FALSE))
    /\ recent' = SubSeq(recent, 1, Min(Len(recent), k))
    /\ UNCHANGED <<schema, metricVars, autoVars, pending, restVars>>

\* a recording is explored while the entry's sums stay within MaxTotal
RecordPreparedMetrics(prepared, requestTime, serviceTime) ==
    /\ prepared.Name \in Cached(Cache)
         => /\ entries[prepared.Name].ServiceTime + serviceTime <= MaxTotal
            /\ entries[prepared.Name].RequestTime + requestTime <= MaxTotal
    /\ SetCache(DoRecordPreparedMetrics(Cache, prepared, requestTime, serviceTime))
    /\ res' = Result("RecordPreparedMetrics", prepared.Name,
                     Outcome(Cache, NoError, "", NilPlan, FALSE))
    /\ UNCHANGED <<schema, recent, metricVars, autoVars, pending, restVars>>

\* the datastore's keyspaces or indexes change
SchemaChange ==
    /\ schema < MaxSchema
    /\ schema' = schema + 1
    /\ UNCHANGED <<lru, entries, limit, res, recent, metricVars, autoVars, pending, restVars>>

(***************************************************************************)
(* Spec: the cache's structure under calls made one at a time. Plans are   *)
(* built for the current schema, which does not change, and the clock      *)
(* stands still.                                                           *)
(***************************************************************************)
ApiVersions == {3, 4}

ApiVersion == CHOOSE v \in ApiVersions : \A w \in ApiVersions : v <= w

\* the plans of the named statements, built for the schema versions vers
PlansFor(names, texts, vers) ==
    {Prepared(n, t, v, ApiVersion, 0) : n \in names, t \in texts, v \in vers}

\* every statement has a plan, and p1 names a second statement as well
Plans == PlansFor(Names, {"SELECT 1"}, {1}) \cup PlansFor({"p1"}, Texts, {1})

Encoded(p) == [kind |-> "plan", plan |-> p]

Clock == 1..MaxClock

EmptyMap == [n \in {} |-> NilPlan]

NoSamples ==
    [n |-> 0, ServiceTime |-> 0, RequestTime |-> 0,
     MinServiceTime |-> 0, MinRequestTime |-> 0,
     MaxServiceTime |-> 0, MaxRequestTime |-> 0]

Idle == [pc |-> "idle", requestTime |-> 0, serviceTime |-> 0, old |-> -1]

NoRecorders == [i \in 1..NumRecorders |-> Idle]

\* a node with no peers: distributePrepared has nobody to send to
NoPeers == [on |-> FALSE, msgs |-> {}]

\* PreparedsRemotePrime has not been called
NoPrime == [pc |-> "off"]

\* no IntersectScan is running
NoScan == [pc |-> "off"]

\* no StringValuePool has been made
NoPool == [size |-> 0, maps |-> <<>>, got |-> <<>>]

\* no function has been called
NoCall == [fn |-> ""]

IdleRequest == [pc |-> "idle", text |-> "", name |-> "", prepared |-> NilPlan, how |-> ""]

NoRequests == [i \in 1..NumRequests |-> IdleRequest]

Init ==
    /\ lru = <<>>
    /\ entries = EmptyMap
    /\ limit \in 1..MaxLimit
    /\ schema = 1
    /\ res = Result("PreparedsInit", "", Outcome(<<>>, NoError, "", NilPlan, FALSE))
    /\ recent = <<>>
    /\ rec = NoRecorders
    /\ sampled = NoSamples
    /\ named = <<>>
    /\ req = NoRequests
    /\ pending = NoPeers
    /\ prime = NoPrime
    /\ scan = NoScan
    /\ pool = NoPool
    /\ call = NoCall

Next ==
    \/ \E p \in Plans : AddPrepared(p)
    \/ \E n \in Names : DeletePrepared(n)
    \/ \E n \in Names, o \in SUBSET {OPT_TRACK} : GetPrepared(n, o, MaxClock, TRUE)
    \/ \E p \in Plans, t \in BOOLEAN :
          DecodePrepared("", Encoded(p), t, FALSE, MaxClock, TRUE)
    \/ \E p \in Plans : AddAutoPreparePlan("SELECT", 0, p, MaxClock)
    \/ \E k \in 1..MaxLimit : PreparedsSetLimit(k)

Spec == Init /\ [][Next]_vars

(***************************************************************************)
(* SpecEntry: the contents of the entries of two statements, under calls   *)
(* made one at a time; plans come built for any schema version, the clock  *)
(* advances, durations are recorded.                                       *)
(***************************************************************************)
EntryNames == {"p1", "p2"}

EntryPlans == PlansFor(EntryNames, {"SELECT 1"}, 1..MaxSchema)

InitEntry ==
    /\ lru = <<>>
    /\ entries = EmptyMap
    /\ limit = MaxLimit
    /\ schema = 1
    /\ res = Result("PreparedsInit", "", Outcome(<<>>, NoError, "", NilPlan, FALSE))
    /\ recent = <<>>
    /\ rec = NoRecorders
    /\ sampled = NoSamples
    /\ named = <<>>
    /\ req = NoRequests
    /\ pending = NoPeers
    /\ prime = NoPrime
    /\ scan = NoScan
    /\ pool = NoPool
    /\ call = NoCall

NextEntry ==
    \/ \E p \in EntryPlans : AddPrepared(p)
    \/ \E n \in EntryNames : DeletePrepared(n)
    \/ \E n \in EntryNames, o \in SUBSET {OPT_TRACK, OPT_VERIFY}, w \in Clock :
          GetPrepared(n, o, w, TRUE)
    \/ \E p \in EntryPlans, w \in Clock :
          DecodePrepared(p.Name, Encoded(p), FALSE, TRUE, w, TRUE)
    \/ \E p \in EntryPlans : RecordPreparedMetrics(p, MaxSample, 1)

SpecEntry == InitEntry /\ [][NextEntry]_vars

(***************************************************************************)
(* SpecMetrics: RecordPreparedMetrics called by several requests at once   *)
(* for the one entry p1. A call is the function handed to GenCache.Get,    *)
(* step by step: two atomic additions and four runs of TestAndSetUint64,   *)
(* each a loop of an atomic load, the test and a compare-and-swap. The      *)
(* request time of a request (its elapsed time) is at least its service    *)
(* time (its execution time).                                              *)
(***************************************************************************)
Recorded == "p1"

\* the counter a step of the call works on, and the step after it
Field(pc) ==
    CASE pc = "addService" -> "ServiceTime"
      [] pc = "minService" -> "MinServiceTime"
      [] pc = "maxService" -> "MaxServiceTime"
      [] pc = "addRequest" -> "RequestTime"
      [] pc = "minRequest" -> "MinRequestTime"
      [] pc = "maxRequest" -> "MaxRequestTime"

After(pc) ==
    CASE pc = "addService" -> "minService"
      [] pc = "minService" -> "maxService"
      [] pc = "maxService" -> "addRequest"
      [] pc = "addRequest" -> "minRequest"
      [] pc = "minRequest" -> "maxRequest"
      [] pc = "maxRequest" -> "idle"

\* the duration a step of the call of r records
Sample(r) ==
    IF r.pc \in {"addService", "minService", "maxService"}
    THEN r.serviceTime ELSE r.requestTime

\* the test a step hands to TestAndSetUint64
Test(pc, old, new) ==
    IF pc \in {"minService", "minRequest"} THEN TestMin(old, new) ELSE TestMax(old, new)

Advance(i) ==
    rec' = [rec EXCEPT ![i] = IF After(rec[i].pc) = "idle" THEN Idle
                              ELSE [rec[i] EXCEPT !.pc = After(rec[i].pc), !.old = -1]]

\* RecordPreparedMetrics is called: the entry is found in the cache
StartRecord(i, requestTime, serviceTime) ==
    /\ rec[i].pc = "idle"
    /\ Recorded \in Cached(Cache)
    /\ sampled.n < MaxCalls
    /\ rec' = [rec EXCEPT ![i] = [pc |-> "addService", requestTime |-> requestTime,
                                  serviceTime |-> serviceTime, old |-> -1]]
    /\ sampled' =
         [n |-> sampled.n + 1,
          ServiceTime |-> sampled.ServiceTime + serviceTime,
          RequestTime |-> sampled.RequestTime + requestTime,
          MinServiceTime |-> IF sampled.n = 0 THEN serviceTime
                             ELSE Min(sampled.MinServiceTime, serviceTime),
          MinRequestTime |-> IF sampled.n = 0 THEN requestTime
                             ELSE Min(sampled.MinRequestTime, requestTime),
          MaxServiceTime |-> Max(sampled.MaxServiceTime, serviceTime),
          MaxRequestTime |-> Max(sampled.MaxRequestTime, requestTime)]
    /\ UNCHANGED <<cacheVars, autoVars, pending, restVars>>

\* atomic.AddUint64 on a sum
AtomicAdd(i) ==
    /\ rec[i].pc \in {"addService", "addRequest"}
    /\ entries' = [entries EXCEPT ![Recorded][Field(rec[i].pc)] =
                                     AddUint64(@, Sample(rec[i]))]
    /\ Advance(i)
    /\ UNCHANGED <<lru, limit, schema, res, recent, sampled, autoVars, pending, restVars>>

\* TestAndSetUint64: load the counter and test it; give up when the test fails
LoadAndTest(i) ==
    /\ rec[i].pc \in {"minService", "maxService", "minRequest", "maxRequest"}
    /\ rec[i].old = -1
    /\ IF Test(rec[i].pc, entries[Recorded][Field(rec[i].pc)], Sample(rec[i]))
       THEN rec' = [rec EXCEPT ![i].old = entries[Recorded][Field(rec[i].pc)]]
       ELSE Advance(i)
    /\ UNCHANGED <<cacheVars, sampled, autoVars, pending, restVars>>

\* TestAndSetUint64: compare-and-swap, and go round again when it fails
CompareAndSwap(i) ==
    /\ rec[i].pc \in {"minService", "maxService", "minRequest", "maxRequest"}
    /\ rec[i].old # -1
    /\ IF entries[Recorded][Field(rec[i].pc)] = rec[i].old
       THEN /\ entries' = [entries EXCEPT ![Recorded][Field(rec[i].pc)] = Sample(rec[i])]
            /\ Advance(i)
       ELSE /\ rec' = [rec EXCEPT ![i].old = -1]
            /\ UNCHANGED entries
    /\ UNCHANGED <<lru, limit, schema, res, recent, sampled, autoVars, pending, restVars>>

MetricPlan == Prepared(Recorded, "SELECT 1", 1, ApiVersion, 0)

InitMetrics ==
    /\ lru = <<Recorded>>
    /\ entries = (Recorded :> NewEntry(MetricPlan, FALSE, FALSE, 0))
    /\ limit = MaxLimit
    /\ schema = 1
    /\ res = Result("AddPrepared", Recorded, Outcome(<<>>, NoError, "", MetricPlan, TRUE))
    /\ recent = <<Recorded>>
    /\ rec = NoRecorders
    /\ sampled = NoSamples
    /\ named = <<>>
    /\ req = NoRequests
    /\ pending = NoPeers
    /\ prime = NoPrime
    /\ scan = NoScan
    /\ pool = NoPool
    /\ call = NoCall

NextMetrics ==
    \/ \E i \in 1..NumRecorders, q \in 1..MaxSample, t \in 1..MaxSample :
          t <= q /\ StartRecord(i, q, t)
    \/ \E i \in 1..NumRecorders : AtomicAdd(i)
    \/ \E i \in 1..NumRecorders : LoadAndTest(i)
    \/ \E i \in 1..NumRecorders : CompareAndSwap(i)

SpecMetrics == InitMetrics /\ [][NextMetrics]_vars

(***************************************************************************)
(* SpecName: calls of GetAutoPrepareName, recorded with what they returned. *)
(* The index API version is an int, the feature controls are a uint64.     *)
(***************************************************************************)
IndexApiVersions == {-1, 1, 18}

FeatureControlValues == {0, 3, 35, 171}

GetAutoPrepareName(text, indexApiVersion, featureControls) ==
    /\ Len(named) < MaxNamed
    /\ named' = Append(named,
                       [text |-> text, indexApiVersion |-> indexApiVersion,
                        featureControls |-> featureControls,
                        name |-> DoGetAutoPrepareName(text, indexApiVersion,
                                                      featureControls)])
    /\ UNCHANGED <<cacheVars, metricVars, req, pending, restVars>>

InitName ==
    /\ lru = <<>>
    /\ entries = EmptyMap
    /\ limit = MaxLimit
    /\ schema = 1
    /\ res = Result("PreparedsInit", "", Outcome(<<>>, NoError, "", NilPlan, FALSE))
    /\ recent = <<>>
    /\ rec = NoRecorders
    /\ sampled = NoSamples
    /\ named = <<>>
    /\ req = NoRequests
    /\ pending = NoPeers
    /\ prime = NoPrime
    /\ scan = NoScan
    /\ pool = NoPool
    /\ call = NoCall

NextName ==
    \E t \in Texts, v \in IndexApiVersions, f \in FeatureControlValues :
       GetAutoPrepareName(t, v, f)

SpecName == InitName /\ [][NextName]_vars

(***************************************************************************)
(* SpecAuto: requests in Context.PrepareStatement with autoPrepare set, no *)
(* arguments and the same index API version and feature controls, running  *)
(* at the same time. A request is GetAutoPrepareName, then                 *)
(* GetAutoPreparePlan step by step (GenCache.Use under the cache's lock,   *)
(* the atomic addition to Uses and the reading of the plan, the check of   *)
(* the metadata under the entry's lock) and, when that gives no plan, the  *)
(* planner and AddAutoPreparePlan (one step: it runs inside GenCache.Add). *)
(* The cache has room for every statement and nothing is deleted; the      *)
(* datastore's schema may change. The statements parse, pass the semantic  *)
(* checks and are as read-only as their requests ask.                      *)
(***************************************************************************)
\* this.featureControls of the requests
FeatureControls == CHOOSE f \in FeatureControlValues : \A g \in FeatureControlValues : f <= g

\* PrepareStatement is entered: name = prepareds.GetAutoPrepareName(...)
StartRequest(i, statement) ==
    /\ req[i].pc = "idle"
    /\ req' = [req EXCEPT ![i] =
                 [pc |-> "use", text |-> statement,
                  name |-> DoGetAutoPrepareName(statement, ApiVersion, FeatureControls),
                  prepared |-> NilPlan, how |-> ""]]
    /\ UNCHANGED <<cacheVars, metricVars, named, pending, restVars>>

\* preparedCache.get with track set: prepareds.cache.Use(n, nil). Without
\* an entry getPrepared answers NoSuchPrepared and GetAutoPreparePlan nil
AutoUse(i) ==
    /\ req[i].pc = "use"
    /\ SetCache(GenCacheUse(Cache, req[i].name))
    /\ recent' = IF req[i].name \in Cached(Cache)
                 THEN Touched(recent, req[i].name, limit) ELSE recent
    /\ req' = [req EXCEPT ![i].pc = IF req[i].name \in Cached(Cache)
                                     THEN "count" ELSE "plan"]
    /\ UNCHANGED <<schema, res, metricVars, named, pending, restVars>>

\* preparedCache.get: atomic.AddInt32(&rv.Uses, 1) and LastUse, and
\* getPrepared: prepared = ce.Prepared
AutoCount(i) ==
    /\ req[i].pc = "count"
    /\ entries' = [entries EXCEPT ![req[i].name].Uses = @ + 1,
                                  ![req[i].name].LastUse = MaxClock]
    /\ req' = [req EXCEPT ![i].pc = "check",
                          ![i].prepared = entries[req[i].name].Prepared]
    /\ UNCHANGED <<lru, limit, schema, res, recent, metricVars, named, pending, restVars>>

\* what GetAutoPreparePlan makes of the plan getPrepared returned
AutoPlanChecked(prep, text, indexApiVersion, featureControls) ==
    IF text # prep.Text THEN NilPlan
    ELSE IF prep.IndexApiVersion # indexApiVersion
            \/ prep.FeatureControls # featureControls
    THEN NilPlan
    ELSE prep

\* getPrepared: the branch "prepared != nil && verify" with OPT_METACHECK,
\* which never reprepares, and the checks of GetAutoPreparePlan
AutoCheck(i) ==
    LET v == Verified(Cache, req[i].name, req[i].prepared, TRUE)
        prep == AutoPlanChecked(req[i].prepared, req[i].text, ApiVersion, FeatureControls)
    IN /\ req[i].pc = "check"
       /\ SetCache(v.c)
       /\ req' = [req EXCEPT ![i].pc = IF prep = NilPlan THEN "plan" ELSE "done",
                             ![i].prepared = prep,
                             ![i].how = IF prep = NilPlan THEN "" ELSE "reused"]
       /\ UNCHANGED <<schema, res, recent, metricVars, named, pending, restVars>>

\* planner.BuildPrepared against the datastore as it is, then SetText,
\* SetName, SetIndexApiVersion and SetFeatureControls
AutoPlan(i) ==
    /\ req[i].pc = "plan"
    /\ req' = [req EXCEPT ![i].pc = "add",
                          ![i].prepared = Prepared(req[i].name, req[i].text, schema,
                                                   ApiVersion, FeatureControls)]
    /\ UNCHANGED <<cacheVars, metricVars, named, pending, restVars>>

\* prepareds.AddAutoPreparePlan(stmt, prepared)
AutoAdd(i) ==
    LET a == DoAddAutoPreparePlan(Cache, "SELECT", 0, req[i].prepared, MaxClock)
        o == Outcome(a.c, IF a.added THEN NoError ELSE NOT_ADDED, "", NilPlan, FALSE)
    IN /\ req[i].pc = "add"
       /\ SetCache(a.c)
       /\ recent' = IF a.c = Cache THEN recent ELSE AfterInsert(req[i].name, o)
       /\ req' = [req EXCEPT ![i].pc = "done",
                             ![i].how = IF req[i].name \in Cached(Cache)
                                        THEN "amended" ELSE "inserted"]
       /\ UNCHANGED <<schema, res, metricVars, named, pending, restVars>>

InitAuto ==
    /\ lru = <<>>
    /\ entries = EmptyMap
    /\ limit = Cardinality(Texts)
    /\ schema = 1
    /\ res = Result("PreparedsInit", "", Outcome(<<>>, NoError, "", NilPlan, FALSE))
    /\ recent = <<>>
    /\ rec = NoRecorders
    /\ sampled = NoSamples
    /\ named = <<>>
    /\ req = NoRequests
    /\ pending = NoPeers
    /\ prime = NoPrime
    /\ scan = NoScan
    /\ pool = NoPool
    /\ call = NoCall

NextAuto ==
    \/ \E i \in 1..NumRequests, t \in Texts : StartRequest(i, t)
    \/ \E i \in 1..NumRequests : AutoUse(i)
    \/ \E i \in 1..NumRequests : AutoCount(i)
    \/ \E i \in 1..NumRequests : AutoCheck(i)
    \/ \E i \in 1..NumRequests : AutoPlan(i)
    \/ \E i \in 1..NumRequests : AutoAdd(i)
    \/ SchemaChange

SpecAuto == InitAuto /\ [][NextAuto]_vars

(***************************************************************************)
(* SpecSkip: Context.PrepareStatement and AddAutoPreparePlan called one at *)
(* a time for statements of every type, with and without parameters,       *)
(* arguments, the subquery flag and the autoPrepare flag. A call of        *)
(* PrepareStatement is one step here; its record keeps the calls it made   *)
(* into the cache.                                                         *)
(***************************************************************************)
StatementTypes == {"SELECT", "EXPLAIN", "EXECUTE", "PREPARE", ""}

\* the name an EXECUTE statement of the model gives (exec.Prepared())
Executed == "p1"

\* Context.PrepareStatement: the cache it leaves, the plan it returns,
\* isPrepared and the calls it made into the cache. args says that named or
\* positional arguments came with the request
DoPrepareStatement(c, statement, stmtType, params, args, subquery, autoPrepare, when) ==
    LET auto == autoPrepare /\ ~(args \/ subquery)
        name == IF auto
                THEN DoGetAutoPrepareName(statement, ApiVersion, FeatureControls)
                ELSE ""
        g == DoGetAutoPreparePlan(c, name, statement, ApiVersion, FeatureControls, when)
        looked == auto /\ name # ""
        c1 == IF looked THEN g.c ELSE c
        built == [Prepared("", statement, schema, ApiVersion, FeatureControls)
                    EXCEPT !.Type = stmtType]
    IN IF looked /\ g.plan # NilPlan
       THEN [c |-> g.c, err |-> NoError, plan |-> g.plan, isPrepared |-> TRUE,
             bcast |-> FALSE, calls |-> {"GetAutoPreparePlan"}]
       ELSE IF stmtType = "EXECUTE"
       THEN LET e == getPrepared(c1, Executed, {OPT_TRACK, OPT_REMOTE, OPT_VERIFY},
                                 when, TRUE)
            IN [c |-> e.c, err |-> e.err, plan |-> e.plan,
                isPrepared |-> e.err = NoError, bcast |-> e.bcast,
                calls |-> (IF looked THEN {"GetAutoPreparePlan"} ELSE {})
                             \cup {"GetPrepared"}]
       ELSE IF auto /\ name # ""
       THEN LET named_ == [built EXCEPT !.Name = name]
                a == DoAddAutoPreparePlan(c1, stmtType, params, named_, when)
            IN [c |-> a.c, err |-> NoError, plan |-> named_, isPrepared |-> FALSE,
                bcast |-> FALSE, calls |-> {"GetAutoPreparePlan", "AddAutoPreparePlan"}]
       ELSE [c |-> c1, err |-> NoError, plan |-> built, isPrepared |-> FALSE,
             bcast |-> FALSE, calls |-> {}]

PrepareStatement(statement, stmtType, params, args, subquery, autoPrepare, when) ==
    \E o \in {DoPrepareStatement(Cache, statement, stmtType, params, args, subquery,
                                autoPrepare, when)} :
       /\ \A n \in Cached(Cache) : entries[n].Uses < MaxUses
       /\ SetCache(o.c)
       /\ res' = [op |-> "PrepareStatement", name |-> statement, err |-> o.err,
                  msg |-> "", plan |-> o.plan, bcast |-> o.bcast, before |-> lru,
                  calls |-> o.calls, skipped |-> args \/ subquery,
                  autoPrepare |-> autoPrepare, stmtType |-> stmtType]
       /\ recent' =
            LET name == DoGetAutoPrepareName(statement, ApiVersion, FeatureControls)
                r1 == IF "GetAutoPreparePlan" \in o.calls /\ name \in Cached(Cache)
                      THEN Touched(recent, name, limit) ELSE recent
                r2 == IF "GetPrepared" \in o.calls /\ Executed \in Cached(Cache)
                      THEN Touched(r1, Executed, limit) ELSE r1
            IN IF "AddAutoPreparePlan" \in o.calls /\ name \in Cached(o.c)
                  /\ (stmtType = "SELECT" /\ params = 0)
               THEN Touched(r2, name, limit) ELSE r2
       /\ pending' = Distributed(o)
       /\ UNCHANGED <<schema, metricVars, autoVars, restVars>>

\* the plans handed to AddAutoPreparePlan: named as GetAutoPrepareName names
\* their texts
AutoPlans ==
    {Prepared(DoGetAutoPrepareName(t, ApiVersion, FeatureControls), t, 1,
              ApiVersion, FeatureControls) : t \in Texts}

InitSkip ==
    /\ lru = <<>>
    /\ entries = EmptyMap
    /\ limit = MaxLimit
    /\ schema = 1
    /\ res = Result("PreparedsInit", "", Outcome(<<>>, NoError, "", NilPlan, FALSE))
    /\ recent = <<>>
    /\ rec = NoRecorders
    /\ sampled = NoSamples
    /\ named = <<>>
    /\ req = NoRequests
    /\ pending = NoPeers
    /\ prime = NoPrime
    /\ scan = NoScan
    /\ pool = NoPool
    /\ call = NoCall

NextSkip ==
    \/ \E t \in Texts, st \in StatementTypes, k \in 0..1, a \in BOOLEAN,
          sq \in BOOLEAN, ap \in BOOLEAN :
          PrepareStatement(t, st, k, a, sq, ap, MaxClock)
    \/ \E st \in StatementTypes, k \in 0..1, p \in AutoPlans :
          AddAutoPreparePlan(st, k, p, MaxClock)
    \/ \E p \in PlansFor({Executed}, {"SELECT 1"}, {1}) : AddPrepared(p)

SpecSkip == InitSkip /\ [][NextSkip]_vars

(***************************************************************************)
(* SpecDecode: plans arriving encoded, from clients (DecodePrepared) and   *)
(* from peers (GetPrepared with REMOTE for a key host::name), next to      *)
(* AddPrepared and DeletePrepared, one call at a time. The datastore's     *)
(* schema changes, so a plan that arrives may no longer verify, and a      *)
(* reprepare may fail.                                                     *)
(***************************************************************************)
\* what arrives: plans with and without a name, built for any schema
\* version, bytes that do not decode, and bytes of which only the text can
\* be read
Encodings ==
    {Encoded(p) : p \in EntryPlans \cup PlansFor({""}, {"SELECT 1"}, {1})}
       \cup {[kind |-> "bad"], [kind |-> "text", text |-> "SELECT 1"]}

InitDecode ==
    /\ lru = <<>>
    /\ entries = EmptyMap
    /\ limit = MaxLimit
    /\ schema = 1
    /\ res = Result("PreparedsInit", "", Outcome(<<>>, NoError, "", NilPlan, FALSE))
    /\ recent = <<>>
    /\ rec = NoRecorders
    /\ sampled = NoSamples
    /\ named = <<>>
    /\ req = NoRequests
    /\ pending = NoPeers
    /\ prime = NoPrime
    /\ scan = NoScan
    /\ pool = NoPool
    /\ call = NoCall

NextDecode ==
    \/ \E p \in PlansFor(EntryNames, Texts, {1}) : AddPrepared(p)
    \/ \E n \in EntryNames : DeletePrepared(n)
    \/ \E n \in EntryNames \cup {""}, e \in Encodings, d \in BOOLEAN, ok \in BOOLEAN :
          DecodePrepared(n, e, FALSE, d, MaxClock, ok)
    \/ \E h \in Hosts, n \in EntryNames, o \in SUBSET {OPT_REMOTE},
          e \in Encodings \cup {NoDoc}, ok \in BOOLEAN :
          GetPreparedOfKey(h, n, o, e, MaxClock, ok)
    \/ SchemaChange

SpecDecode == InitDecode /\ [][NextDecode]_vars

(***************************************************************************)
(* SpecDistribute: a node with peers. distributePrepared starts a          *)
(* goroutine that runs DoRemoteOps some time later; whatever comes of it   *)
(* is handed to a function that writes to the log. One statement, p1, is   *)
(* added, decoded, fetched from a peer, looked up with VERIFY and deleted  *)
(* while the schema changes.                                               *)
(***************************************************************************)
Distributed1 == "p1"

DistributedPlans == PlansFor({Distributed1}, {"SELECT 1"}, 1..MaxSchema)

DistributedEncodings ==
    {Encoded(p) : p \in DistributedPlans \cup PlansFor({""}, {"SELECT 1"}, {1})}
       \cup {[kind |-> "bad"]}

\* the goroutine of distributePrepared: DoRemoteOps towards the peers, and
\* its warning, if any, logged
DoRemoteOps(m, warn) ==
    /\ pending.on
    /\ m \in pending.msgs
    /\ pending' = [pending EXCEPT !.msgs = @ \ {m}]
    /\ UNCHANGED <<cacheVars, metricVars, autoVars, restVars>>

InitDistribute ==
    /\ lru = <<>>
    /\ entries = EmptyMap
    /\ limit = MaxLimit
    /\ schema = 1
    /\ res = Result("PreparedsInit", "", Outcome(<<>>, NoError, "", NilPlan, FALSE))
    /\ recent = <<>>
    /\ rec = NoRecorders
    /\ sampled = NoSamples
    /\ named = <<>>
    /\ req = NoRequests
    /\ pending = [on |-> TRUE, msgs |-> {}]
    /\ prime = NoPrime
    /\ scan = NoScan
    /\ pool = NoPool
    /\ call = NoCall

NextDistribute ==
    \/ \E p \in PlansFor({Distributed1}, Texts, {1}) : AddPrepared(p)
    \/ DeletePrepared(Distributed1)
    \/ \E n \in {"", Distributed1}, e \in DistributedEncodings, d \in BOOLEAN,
          ok \in BOOLEAN :
          DecodePrepared(n, e, FALSE, d, MaxClock, ok)
    \/ \E e \in DistributedEncodings \cup {NoDoc} :
          GetPreparedOfKey("n2", Distributed1, {OPT_REMOTE}, e, MaxClock, TRUE)
    \/ \E ok \in BOOLEAN : GetPrepared(Distributed1, {OPT_VERIFY}, MaxClock, ok)
    \/ \E m \in pending.msgs, warn \in BOOLEAN : DoRemoteOps(m, warn)
    \/ SchemaChange

SpecDistribute == InitDistribute /\ [][NextDistribute]_vars

(***************************************************************************)
(* SpecPrime: PreparedsRemotePrime, step by step: the loop over the nodes, *)
(* the keys a contacted peer enumerates and, for each key, the document    *)
(* fetched and DecodePrepared. The node names of a cluster are distinct.   *)
(* The history fields contacted and counts of prime list the peers asked   *)
(* for their keys and how many of their plans DecodePrepared accepted.     *)
(***************************************************************************)
Nodes == {"n1", "n2", "n3"}

\* the sequences of distinct elements of a set
Orders(S) ==
    {q \in UNION {[1..k -> S] : k \in 0..Cardinality(S)} :
        \A i \in DOMAIN q, j \in DOMAIN q : i # j => q[i] # q[j]}

\* nodeNames with its element at the (zero-based) position n taken out
RemoveAt(q, n) == SubSeq(q, 1, n) \o SubSeq(q, n + 2, Len(q))

\* PreparedsRemotePrime is called: without an identity it returns at once
PreparedsRemotePrime(thisHost, nodeNames) ==
    /\ prime.pc = "off"
    /\ prime' = [pc |-> IF thisHost = "" THEN "done" ELSE "loop",
                 thisHost |-> thisHost, nodeNames |-> nodeNames,
                 left |-> Len(nodeNames), host |-> "", keys |-> <<>>, count |-> 0,
                 contacted |-> <<>>, counts |-> <<>>,
                 last |-> [name |-> "", err |-> NoError, plan |-> NilPlan]]
    /\ UNCHANGED <<cacheVars, metricVars, autoVars, pending, scan, libVars>>

\* choosing a host that stays in nodeNames
PrimeChooseWithReplacement(n, ids) ==
    LET host == prime.nodeNames[n + 1]
    IN /\ prime.pc = "loop"
       /\ prime.left > 0
       /\ n \in 0..(prime.left - 1)
       /\ Len(prime.contacted) < Cardinality(Nodes)
       /\ prime' = IF host = prime.thisHost
                    THEN [prime EXCEPT !.left = @ - 1, !.count = 0]
                    ELSE [prime EXCEPT !.left = @ - 1, !.count = 0,
                                       !.pc = "keys", !.host = host, !.keys = ids,
                                       !.contacted = Append(@, host),
                                       !.counts = Append(@, 0)]
       /\ UNCHANGED <<cacheVars, metricVars, autoVars, pending, scan, libVars>>

\* one round of the loop: n := r1.Intn(left), the host is taken out of
\* nodeNames, and unless it is this node its keys are asked for
\* (GetRemoteKeys hands ids to the function, one by one)
PrimeChoose(n, ids) ==
    LET host == prime.nodeNames[n + 1]
    IN /\ prime.pc = "loop"
       /\ prime.left > 0
       /\ n \in 0..(prime.left - 1)
       /\ prime' = IF host = prime.thisHost
                    THEN [prime EXCEPT !.nodeNames = RemoveAt(@, n),
                                       !.left = @ - 1, !.count = 0]
                    ELSE [prime EXCEPT !.nodeNames = RemoveAt(@, n),
                                       !.left = @ - 1, !.count = 0,
                                       !.pc = "keys", !.host = host, !.keys = ids,
                                       !.contacted = Append(@, host),
                                       !.counts = Append(@, 0)]
       /\ UNCHANGED <<cacheVars, metricVars, autoVars, pending, scan, libVars>>

\* the function handed to GetRemoteKeys for one key: GetRemoteDoc and, when
\* the document has an encoded plan, DecodePrepared(name, encoded_plan,
\* false, false, nil); count++ when that returns no error
PrimeKey(doc, repOK) ==
    LET name == Head(prime.keys)
        d == IF doc = NoDoc
             THEN Outcome(Cache, NO_SUCH_PREPARED, name, NilPlan, FALSE)
             ELSE DoDecodePrepared(Cache, name, doc, FALSE, FALSE, MaxClock, repOK)
        got == IF doc # NoDoc /\ d.err = NoError THEN 1 ELSE 0
    IN /\ prime.pc = "keys"
       /\ prime.keys # <<>>
       /\ SetCache(d.c)
       /\ recent' = IF d.plan = NilPlan THEN recent ELSE AfterInsert(d.plan.Name, d)
       /\ prime' = [prime EXCEPT !.keys = Tail(@),
                                  !.count = @ + got,
                                  !.counts[Len(prime.counts)] = @ + got,
                                  !.last = [name |-> name, err |-> d.err, plan |-> d.plan]]
       /\ UNCHANGED <<schema, res, metricVars, autoVars, pending, scan, libVars>>

\* the keys of the peer are exhausted: "if count > 0 { break }"
PrimeCounted ==
    /\ prime.pc = "keys"
    /\ prime.keys = <<>>
    /\ prime' = [prime EXCEPT !.pc = IF prime.count > 0 THEN "done" ELSE "loop"]
    /\ UNCHANGED <<cacheVars, metricVars, autoVars, pending, scan, libVars>>

\* "for left > 0" ends
PrimeReturn ==
    /\ prime.pc = "loop"
    /\ prime.left = 0
    /\ prime' = [prime EXCEPT !.pc = "done"]
    /\ UNCHANGED <<cacheVars, metricVars, autoVars, pending, scan, libVars>>

\* what a peer has under a key
PeerDocs ==
    {Encoded(p) : p \in EntryPlans \cup PlansFor({""}, {"SELECT 1"}, {1})}
       \cup {[kind |-> "bad"], NoDoc}

InitPrime ==
    /\ lru = <<>>
    /\ entries = EmptyMap
    /\ limit = MaxLimit
    /\ schema = 1
    /\ res = Result("PreparedsInit", "", Outcome(<<>>, NoError, "", NilPlan, FALSE))
    /\ recent = <<>>
    /\ rec = NoRecorders
    /\ sampled = NoSamples
    /\ named = <<>>
    /\ req = NoRequests
    /\ pending = [on |-> TRUE, msgs |-> {}]
    /\ prime = NoPrime
    /\ scan = NoScan
    /\ pool = NoPool
    /\ call = NoCall

NextPrime ==
    \/ \E h \in {"", "n1"}, q \in Orders(Nodes) : PreparedsRemotePrime(h, q)
    \/ \E n \in 0..(Cardinality(Nodes) - 1), ids \in Orders(EntryNames) :
          PrimeChoose(n, ids)
    \/ \E doc \in PeerDocs, ok \in BOOLEAN : PrimeKey(doc, ok)
    \/ PrimeCounted
    \/ PrimeReturn

SpecPrime == InitPrime /\ [][NextPrime]_vars

(***************************************************************************)
(* SpecVerify: lookups that verify, made one at a time while the schema     *)
(* changes under the cached plans: a plan verified once goes stale, and    *)
(* preparing it again may fail.                                            *)
(***************************************************************************)
VerifyOptions == SUBSET {OPT_TRACK, OPT_VERIFY, OPT_METACHECK}

InitVerify ==
    /\ lru = <<>>
    /\ entries = EmptyMap
    /\ limit = MaxLimit
    /\ schema = 1
    /\ res = Result("PreparedsInit", "", Outcome(<<>>, NoError, "", NilPlan, FALSE))
    /\ recent = <<>>
    /\ rec = NoRecorders
    /\ sampled = NoSamples
    /\ named = <<>>
    /\ req = NoRequests
    /\ pending = NoPeers
    /\ prime = NoPrime
    /\ scan = NoScan
    /\ pool = NoPool
    /\ call = NoCall

NextVerify ==
    \/ \E p \in EntryPlans : AddPrepared(p)
    \/ \E n \in EntryNames : DeletePrepared(n)
    \/ \E n \in EntryNames, o \in VerifyOptions, ok \in BOOLEAN :
          GetPrepared(n, o, MaxClock, ok)
    \/ \E p \in EntryPlans, ok \in BOOLEAN :
          DecodePrepared(p.Name, Encoded(p), FALSE, FALSE, MaxClock, ok)
    \/ SchemaChange

SpecVerify == InitVerify /\ [][NextVerify]_vars

(***************************************************************************)
(* SpecReprepare: reprepare applied to plans of every name, text, type,    *)
(* index API version and feature controls, the planner returning plans     *)
(* carrying whatever the settings of the process make it put there; and    *)
(* the lookups that call it for the entry p1.                              *)
(***************************************************************************)
PlanTypes == {"SELECT", "UPDATE"}

\* the plans handed to reprepare, built for the first schema
StalePlans ==
    {[Prepared(n, t, 1, a, f) EXCEPT !.Type = ty] :
        n \in {"", "p1"}, t \in Texts, a \in {1, 18}, f \in {0, 3},
        ty \in PlanTypes}

\* what planner.BuildPrepared may return: a plan for the current datastore
BuiltPlans ==
    {[Name |-> "", Text |-> "", Type |-> ty, Ver |-> schema,
      IndexApiVersion |-> a, FeatureControls |-> f] :
        ty \in PlanTypes, a \in {1, 18}, f \in {0, 3}}

\* the plans cached under the name p1
CachedPlans ==
    {p \in StalePlans : p.Name = "p1" /\ p.Text = "SELECT 1" /\ p.Type = "SELECT"}

\* reprepare(prepared): ok says whether parsing, planning and marshalling
\* succeed, pl is the plan the planner returns
Reprepare(prepared, pl, ok) ==
    /\ res' = [op |-> "reprepare", name |-> prepared.Name,
               err |-> IF ok THEN NoError ELSE REPREPARE, msg |-> "",
               plan |-> IF ok THEN reprepareOf(prepared, pl) ELSE NilPlan,
               bcast |-> FALSE, before |-> lru,
               stale |-> prepared, built |-> pl]
    /\ UNCHANGED <<lru, entries, limit, schema, recent, metricVars, autoVars,
                   pending, restVars>>

InitReprepare ==
    /\ lru = <<>>
    /\ entries = EmptyMap
    /\ limit = MaxLimit
    /\ schema = 1
    /\ res = Result("PreparedsInit", "", Outcome(<<>>, NoError, "", NilPlan, FALSE))
    /\ recent = <<>>
    /\ rec = NoRecorders
    /\ sampled = NoSamples
    /\ named = <<>>
    /\ req = NoRequests
    /\ pending = NoPeers
    /\ prime = NoPrime
    /\ scan = NoScan
    /\ pool = NoPool
    /\ call = NoCall

NextReprepare ==
    \/ \E p \in StalePlans, pl \in BuiltPlans, ok \in BOOLEAN : Reprepare(p, pl, ok)
    \/ \E p \in CachedPlans : AddPrepared(p)
    \/ \E ok \in BOOLEAN : GetPrepared("p1", {OPT_VERIFY}, MaxClock, ok)
    \/ SchemaChange

SpecReprepare == InitReprepare /\ [][NextReprepare]_vars

(***************************************************************************)
(* SpecLookups: getPrepared with VERIFY for the statement p1, step by      *)
(* step, run by several requests at once while the schema changes and      *)
(* AddPrepared and DecodePrepared are called for the same name. A request  *)
(* reads the entry's plan after the lookup, reads populated, verifies      *)
(* under the entry's lock or without it, and prepares the plan again and   *)
(* calls AddPrepared when it is not good. The entry's lock is held by the  *)
(* request whose position is in LockHeld. GenCache.Add runs the function   *)
(* handed to it under the cache's lock, not the entry's.                   *)
(***************************************************************************)
Looked == "p1"

LookedPlans == PlansFor({Looked}, {"SELECT 1"}, 1..MaxSchema)

Lookups == 1..NumLookups

\* the *CacheEntry a request holds: the entry of the cache, or an entry that
\* was deleted from the cache, shared by the requests in holders
InCache == [cached |-> TRUE, populated |-> FALSE, holders |-> {}]

NoLookup ==
    [pc |-> "idle", track |-> FALSE, prepared |-> NilPlan, good |-> FALSE,
     err |-> NoError, plan |-> NilPlan, ce |-> InCache]

\* ce.populated as request i reads it
PopulatedOf(i) ==
    IF req[i].ce.cached THEN entries[Looked].populated ELSE req[i].ce.populated

\* requests i and j hold the same entry
SameEntry(i, j) ==
    IF req[i].ce.cached THEN req[j].ce.cached ELSE j \in req[i].ce.holders

\* the positions between ce.Lock() and ce.Unlock()
LockHeld == {"locked", "populate", "unlock"}

\* the request returns
Returned(r, err, plan) == [r EXCEPT !.pc = "done", !.err = err, !.plan = plan]

\* ce := prepareds.get(name, track); prepared = ce.Prepared
LookupGet(i, track) ==
    /\ req[i].pc = "idle"
    /\ track => UsesBelowMax(Looked)
    /\ SetCache(get(Cache, Looked, track, MaxClock))
    /\ recent' = IF Looked \in Cached(Cache) /\ track
                 THEN Touched(recent, Looked, limit) ELSE recent
    /\ req' = [req EXCEPT ![i] =
                 IF Looked \in Cached(Cache)
                 THEN [@ EXCEPT !.pc = "check", !.track = track, !.ce = InCache,
                                !.prepared = entries[Looked].Prepared]
                 ELSE Returned([@ EXCEPT !.track = track], NO_SUCH_PREPARED, NilPlan)]
    /\ UNCHANGED <<schema, res, metricVars, named, pending, restVars>>

\* if ce.populated
LookupCheck(i) ==
    /\ req[i].pc = "check"
    /\ req' = [req EXCEPT ![i].pc = IF PopulatedOf(i) THEN "short" ELSE "lock"]
    /\ UNCHANGED <<cacheVars, metricVars, named, pending, restVars>>

\* what follows the verification: return the plan when good, else reprepare
AfterVerify(r, good) ==
    IF good THEN Returned([r EXCEPT !.good = TRUE], NoError, r.prepared)
    ELSE [r EXCEPT !.pc = "reprepare", !.good = FALSE]

\* the short way: MetadataCheck, and Verify when it fails
LookupShort(i) ==
    /\ req[i].pc = "short"
    /\ req' = [req EXCEPT ![i] =
                 AfterVerify(@, MetadataCheck(req[i].prepared) \/ Verify(req[i].prepared))]
    /\ UNCHANGED <<cacheVars, metricVars, named, pending, restVars>>

\* ce.Lock()
LookupLock(i) ==
    /\ req[i].pc = "lock"
    /\ \A j \in Lookups : SameEntry(i, j) => req[j].pc \notin LockHeld
    /\ req' = [req EXCEPT ![i].pc = "locked"]
    /\ UNCHANGED <<cacheVars, metricVars, named, pending, restVars>>

\* under the lock: populated is read again, and if it is not set, Verify
LookupLocked(i) ==
    /\ req[i].pc = "locked"
    /\ req' = [req EXCEPT ![i] =
                 IF PopulatedOf(i)
                 THEN [@ EXCEPT !.pc = "unlock", !.good = TRUE]
                 ELSE IF Verify(req[i].prepared)
                 THEN [@ EXCEPT !.pc = "populate", !.good = TRUE]
                 ELSE [@ EXCEPT !.pc = "unlock", !.good = FALSE]]
    /\ UNCHANGED <<cacheVars, metricVars, named, pending, restVars>>

\* ce.populated = true
LookupPopulate(i) ==
    /\ req[i].pc = "populate"
    /\ entries' = IF req[i].ce.cached
                  THEN [entries EXCEPT ![Looked].populated = TRUE] ELSE entries
    /\ req' = [j \in Lookups |->
                 IF j = i THEN [req[j] EXCEPT !.pc = "unlock", !.ce.populated = ~req[i].ce.cached]
                 ELSE IF ~req[i].ce.cached /\ j \in req[i].ce.holders
                 THEN [req[j] EXCEPT !.ce.populated = TRUE]
                 ELSE req[j]]
    /\ UNCHANGED <<lru, limit, schema, res, recent, metricVars, named, pending, restVars>>

\* ce.Unlock()
LookupUnlock(i) ==
    /\ req[i].pc = "unlock"
    /\ req' = [req EXCEPT ![i] = AfterVerify(@, req[i].good)]
    /\ UNCHANGED <<cacheVars, metricVars, named, pending, restVars>>

\* prepared, err = reprepare(prepared, phaseTime)
LookupReprepare(i, repOK) ==
    /\ req[i].pc = "reprepare"
    /\ req' = [req EXCEPT ![i] =
                 IF repOK
                 THEN [@ EXCEPT !.pc = "add", !.prepared = reprepare(req[i].prepared)]
                 ELSE Returned(@, REPREPARE, NilPlan)]
    /\ UNCHANGED <<cacheVars, metricVars, named, pending, restVars>>

\* err = AddPrepared(prepared)
LookupAdd(i) ==
    LET o == DoAddPrepared(Cache, req[i].prepared)
    IN /\ req[i].pc = "add"
       /\ SetCache(o.c)
       /\ res' = Result("AddPrepared", Looked, o)
       /\ recent' = AfterInsert(Looked, o)
       /\ pending' = Distributed(o)
       /\ req' = [req EXCEPT ![i] = Returned(@, o.err, o.plan)]
       /\ UNCHANGED <<schema, metricVars, named, restVars>>

InitLookups ==
    /\ lru = <<>>
    /\ entries = EmptyMap
    /\ limit = MaxLimit
    /\ schema = 1
    /\ res = Result("PreparedsInit", "", Outcome(<<>>, NoError, "", NilPlan, FALSE))
    /\ recent = <<>>
    /\ rec = NoRecorders
    /\ sampled = NoSamples
    /\ named = <<>>
    /\ req = [i \in Lookups |-> NoLookup]
    /\ pending = NoPeers
    /\ prime = NoPrime
    /\ scan = NoScan
    /\ pool = NoPool
    /\ call = NoCall

NextLookups ==
    \/ \E i \in Lookups, track \in BOOLEAN : LookupGet(i, track)
    \/ \E i \in Lookups : LookupCheck(i)
    \/ \E i \in Lookups : LookupShort(i)
    \/ \E i \in Lookups : LookupLock(i)
    \/ \E i \in Lookups : LookupLocked(i)
    \/ \E i \in Lookups : LookupPopulate(i)
    \/ \E i \in Lookups : LookupUnlock(i)
    \/ \E i \in Lookups, ok \in BOOLEAN : LookupReprepare(i, ok)
    \/ \E i \in Lookups : LookupAdd(i)
    \/ \E p \in PlansFor({Looked}, Texts, 1..MaxSchema) : AddPrepared(p)
    \/ \E p \in LookedPlans, ok \in BOOLEAN :
          DecodePrepared(Looked, Encoded(p), FALSE, FALSE, MaxClock, ok)
    \/ \E p \in PlansFor({Looked}, {"SELECT 1"}, {1}) :
          RecordPreparedMetrics(p, MaxSample, 1)
    \/ SchemaChange

SpecLookups == InitLookups /\ [][NextLookups]_vars

\* the steps of request i once it has looked the entry up
LookupStep(i) ==
    \/ LookupCheck(i)
    \/ LookupShort(i)
    \/ LookupLock(i)
    \/ LookupLocked(i)
    \/ LookupPopulate(i)
    \/ LookupUnlock(i)
    \/ \E ok \in BOOLEAN : LookupReprepare(i, ok)
    \/ LookupAdd(i)

\* a request that is in getPrepared goes on running
SpecLookupsFair == SpecLookups /\ \A i \in Lookups : WF_vars(LookupStep(i))

(***************************************************************************)
(* SpecScan: IntersectScan.RunOnce with its child scans, no limit, no      *)
(* external stop and no error. A child sends its keys in the order of its  *)
(* index to the shared channel, each item tagged with the child's bit,     *)
(* and notifies its parent when it ends: after its last key or, once the   *)
(* parent has told the children to stop, at any point. The parent's loop   *)
(* takes what getItemChildren hands it, an item of the channel or the bit  *)
(* of a child that has ended. An int64 mask is modelled as the set of the  *)
(* positions of its bits that are set; the map values holds the item of    *)
(* every key of the map bits. The field sent counts the emissions of each  *)
(* key.                                                                    *)
(***************************************************************************)
ScanKeys == {"k1", "k2", "k3", "k4", "k5"}

\* the keys of the child scans, child by child
ScanCases ==
    { << <<"k1", "k2", "k3">>, <<"k2", "k3", "k4">>, <<"k3", "k5">> >>,
      << <<"k3">>, <<"k3", "k5">> >>,
      << <<"k1", "k2">>, <<"k1", "k2">> >>,
      << <<>>, <<"k1">> >> }

\* the children's bits: scan.SetBit(uint8(i))
ChildBitsOf(keys) == 0..(Len(keys) - 1)

\* fullBits |= int64(0x01) << uint8(i), for every child
FullBits(keys) == ChildBitsOf(keys)

\* the key set of the child with bit b
KeysOf(keys, b) == {keys[b + 1][j] : j \in DOMAIN keys[b + 1]}

NobodySent == [k \in ScanKeys |-> 0]

\* sendItem(item)
sendItem(s, key) == [s EXCEPT !.sent[key] = @ + 1]

\* processKey(item, context, fullBits, limit): the field count is this.sent,
\* the field ok the value returned
processKey(s, item) ==
    LET old == IF item.key \in DOMAIN s.bits THEN s.bits[item.key] ELSE {}
        bits == old \cup {item.bit}
        count == IF s.limit > 0 THEN s.count + 1 ELSE s.count
    IN IF FullBits(s.keys) \subseteq bits
       THEN sendItem([s EXCEPT !.bits = [k \in DOMAIN s.bits \ {item.key} |-> s.bits[k]],
                               !.count = count,
                               !.ok = (s.limit <= 0 \/ count < s.limit)],
                     item.key)
       ELSE [s EXCEPT !.bits = [k \in DOMAIN s.bits \cup {item.key} |->
                                   IF k = item.key THEN bits ELSE s.bits[k]]]

\* the keys of the map sent one after the other
RECURSIVE sendAll(_, _)
sendAll(s, ks) ==
    IF ks = {} THEN s
    ELSE LET k == CHOOSE x \in ks : TRUE
         IN sendAll(sendItem(s, k), ks \ {k})

\* sendItems, sending the keys that every child produced
sendItemsOfAllChildren(s, childBits) ==
    IF childBits = {} THEN s
    ELSE sendAll(s, {k \in DOMAIN s.bits : FullBits(s.keys) \subseteq s.bits[k]})

\* sendItems(childBits)
sendItems(s, childBits) ==
    IF childBits = {} THEN s
    ELSE sendAll(s, {k \in DOMAIN s.bits : childBits \subseteq s.bits[k]})

\* RunOnce up to the loop: the bits, the channel, the children started,
\* limit := getLimit(...)
\* and the maps taken from the pools when pipelineCap <= _INDEX_VALUE_POOL.Size()
RunOnce(keys, lim, pooled) ==
    /\ scan.pc = "off"
    /\ scan' = [pc |-> "loop", keys |-> keys, limit |-> lim, count |-> 0, ok |-> TRUE,
                calls |-> 1, runs |-> 1, stop |-> FALSE, stopped |-> FALSE,
                waiting |-> 0, swept |-> FALSE, parent |-> FALSE,
                taken |-> IF pooled THEN 2 ELSE 0, put |-> 0,
                next |-> [b \in ChildBitsOf(keys) |-> 1],
                running |-> [b \in ChildBitsOf(keys) |-> TRUE],
                notified |-> FALSE, notifies |-> 0,
                channel |-> <<>>, closed |-> FALSE, children |-> <<>>,
                n |-> Len(keys), nscans |-> Len(keys), childBits |-> {},
                bits |-> [k \in {} |-> {}], sent |-> NobodySent]
    /\ UNCHANGED <<cacheVars, metricVars, autoVars, pending, prime, libVars>>

\* RunOnce of a scan with no limit
ScanRunOnce(keys) == RunOnce(keys, 0, TRUE)

\* RunOnce called again: this.once.Do does not run the body a second time
RunOnceAgain ==
    /\ scan.pc # "off"
    /\ scan.calls < MaxRunOnce
    /\ scan' = [scan EXCEPT !.calls = @ + 1]
    /\ UNCHANGED <<cacheVars, metricVars, autoVars, pending, prime, libVars>>

\* SendStop: baseSendStop, and scan.SendStop() for every child
SendStop ==
    /\ scan.pc \in {"loop", "wait"}
    /\ ~scan.stop
    /\ scan' = [scan EXCEPT !.stop = TRUE]
    /\ UNCHANGED <<cacheVars, metricVars, autoVars, pending, prime, libVars>>

\* the deferred functions of RunOnce, last one first: the maps go back to
\* their pools, values and bits are set to nil, notify, close
deferred(s) ==
    [s EXCEPT !.pc = "done", !.put = s.taken, !.bits = [k \in {} |-> {}],
              !.parent = TRUE]

\* the child with bit b sends its next key; it blocks while the channel is full
ChildSend(b) ==
    /\ scan.pc \in {"loop", "wait"}
    /\ b \in DOMAIN scan.running
    /\ scan.running[b]
    /\ scan.next[b] <= Len(scan.keys[b + 1])
    /\ Len(scan.channel) < ScanCap
    /\ scan' = [scan EXCEPT !.channel = Append(@, [key |-> scan.keys[b + 1][scan.next[b]],
                                                    bit |-> b]),
                            !.next[b] = @ + 1]
    /\ UNCHANGED <<cacheVars, metricVars, autoVars, pending, prime, libVars>>

\* the child with bit b ends, having sent its keys or having been told to
\* stop, and notifies its parent
ChildEnd(b) ==
    /\ scan.pc \in {"loop", "wait"}
    /\ b \in DOMAIN scan.running
    /\ scan.running[b]
    /\ scan.next[b] > Len(scan.keys[b + 1]) \/ scan.notified \/ scan.stop
    /\ scan' = [scan EXCEPT !.running[b] = FALSE, !.children = Append(@, b)]
    /\ UNCHANGED <<cacheVars, metricVars, autoVars, pending, prime, libVars>>

\* getItemChildren hands an item: ok = this.processKey(item, ...)
ScanItem ==
    /\ scan.pc = "loop"
    /\ scan.ok
    /\ scan.channel # <<>>
    /\ scan' = processKey([scan EXCEPT !.channel = Tail(@)], Head(scan.channel))
    /\ UNCHANGED <<cacheVars, metricVars, autoVars, pending, prime, libVars>>

\* getItemChildren hands the bit of a child that has ended, the children
\* being told to stop each time
ScanChildNotifyingEachTime ==
    /\ scan.pc = "loop"
    /\ scan.ok
    /\ scan.children # <<>>
    /\ scan' = [scan EXCEPT !.children = Tail(@),
                            !.notified = TRUE,
                            !.notifies = @ + 1,
                            !.childBits = IF scan.n = scan.nscans
                                          THEN @ \cup {Head(scan.children)} ELSE @,
                            !.n = @ - 1,
                            !.closed = (scan.n - 1 = 0)]
    /\ UNCHANGED <<cacheVars, metricVars, autoVars, pending, prime, libVars>>

\* getItemChildren hands the bit of a child that has ended; notifies counts
\* the calls of notifyChildren
ScanChild ==
    /\ scan.pc = "loop"
    /\ scan.ok
    /\ scan.children # <<>>
    /\ scan' = [scan EXCEPT !.children = Tail(@),
                            !.notified = @ \/ scan.n = scan.nscans,
                            !.notifies = IF scan.n = scan.nscans THEN @ + 1 ELSE @,
                            !.childBits = IF scan.n = scan.nscans
                                          THEN @ \cup {Head(scan.children)} ELSE @,
                            !.n = @ - 1,
                            !.closed = (scan.n - 1 = 0)]
    /\ UNCHANGED <<cacheVars, metricVars, autoVars, pending, prime, libVars>>

\* the channel is closed and empty: the loop ends, and what is left is swept
ScanBreak ==
    /\ scan.pc = "loop"
    /\ scan.ok
    /\ scan.closed
    /\ scan.channel = <<>>
    /\ scan' = deferred(IF scan.childBits # {} /\ (scan.limit <= 0 \/ scan.count < scan.limit)
                        THEN [sendItems(scan, scan.childBits) EXCEPT !.swept = TRUE]
                        ELSE scan)
    /\ UNCHANGED <<cacheVars, metricVars, autoVars, pending, prime, libVars>>

\* processKey has returned false: the loop ends, and nothing is swept
ScanLimit ==
    /\ scan.pc = "loop"
    /\ ~scan.ok
    /\ scan' = deferred(scan)
    /\ UNCHANGED <<cacheVars, metricVars, autoVars, pending, prime, libVars>>

\* getItemChildren tells that the scan has been stopped, with the children
\* not waited for
ScanStopWithoutWaiting ==
    /\ scan.pc = "loop"
    /\ scan.ok
    /\ scan.stop
    /\ scan' = deferred([scan EXCEPT !.stopped = TRUE,
                                      !.notified = @ \/ scan.n = scan.nscans,
                                      !.notifies = IF scan.n = scan.nscans
                                                   THEN @ + 1 ELSE @])
    /\ UNCHANGED <<cacheVars, metricVars, autoVars, pending, prime, libVars>>

\* getItemChildren tells that the scan has been stopped: the children are
\* told to stop if they were not yet, and waited for if some have not ended
ScanStop ==
    /\ scan.pc = "loop"
    /\ scan.ok
    /\ scan.stop
    /\ LET s == [scan EXCEPT !.stopped = TRUE,
                             !.notified = @ \/ scan.n = scan.nscans,
                             !.notifies = IF scan.n = scan.nscans THEN @ + 1 ELSE @]
       IN scan' = IF scan.n > 0
                  THEN [s EXCEPT !.pc = "wait", !.waiting = scan.n]
                  ELSE deferred(s)
    /\ UNCHANGED <<cacheVars, metricVars, autoVars, pending, prime, libVars>>

\* childrenWaitNoStop(n) takes the end of one more child; after the last
\* one, channel.close(context)
ScanWait ==
    /\ scan.pc = "wait"
    /\ scan.children # <<>>
    /\ LET s == [scan EXCEPT !.children = Tail(@), !.waiting = @ - 1]
       IN scan' = IF s.waiting = 0 THEN deferred([s EXCEPT !.closed = TRUE]) ELSE s
    /\ UNCHANGED <<cacheVars, metricVars, autoVars, pending, prime, libVars>>

InitScan ==
    /\ lru = <<>>
    /\ entries = EmptyMap
    /\ limit = MaxLimit
    /\ schema = 1
    /\ res = Result("PreparedsInit", "", Outcome(<<>>, NoError, "", NilPlan, FALSE))
    /\ recent = <<>>
    /\ rec = NoRecorders
    /\ sampled = NoSamples
    /\ named = <<>>
    /\ req = NoRequests
    /\ pending = NoPeers
    /\ prime = NoPrime
    /\ scan = NoScan
    /\ pool = NoPool
    /\ call = NoCall

NextScan ==
    \/ \E keys \in ScanCases : ScanRunOnce(keys)
    \/ \E b \in 0..2 : ChildSend(b)
    \/ \E b \in 0..2 : ChildEnd(b)
    \/ ScanItem
    \/ ScanChild
    \/ ScanBreak

SpecScan == InitScan /\ [][NextScan]_vars

(***************************************************************************)
(* IntersectScan with a limit.                                             *)
(***************************************************************************)
ScanLimits == 1..MaxScanLimit

NextLimit ==
    \/ \E keys \in ScanCases, lim \in ScanLimits : RunOnce(keys, lim, TRUE)
    \/ \E b \in 0..2 : ChildSend(b)
    \/ \E b \in 0..2 : ChildEnd(b)
    \/ ScanItem
    \/ ScanChild
    \/ ScanBreak
    \/ ScanLimit

SpecLimit == InitScan /\ [][NextLimit]_vars

(***************************************************************************)
(* IntersectScan stopped while it runs.                                    *)
(***************************************************************************)
StopLimits == {0, 1}

\* the scans of two children
StopCases == {keys \in ScanCases : Len(keys) = 2}

\* a step of the loop of RunOnce
ScanStep ==
    \/ ScanItem
    \/ ScanChild
    \/ ScanBreak
    \/ ScanLimit
    \/ ScanStop
    \/ ScanWait

NextStop ==
    \/ \E keys \in StopCases, lim \in StopLimits, pooled \in BOOLEAN :
          RunOnce(keys, lim, pooled)
    \/ RunOnceAgain
    \/ SendStop
    \/ \E b \in 0..2 : ChildSend(b)
    \/ \E b \in 0..2 : ChildEnd(b)
    \/ ScanStep

SpecStop == InitScan /\ [][NextStop]_vars

\* the operator and its children are goroutines that keep being scheduled
SpecStopFair ==
    /\ SpecStop
    /\ WF_vars(ScanStep)
    /\ \A b \in 0..2 : WF_vars(ChildEnd(b))

(***************************************************************************)
(* StringValuePool (src/value/pool_string_value.go). util.FastPool is not  *)
(* part of the sources at hand: its Get hands out one of the objects it    *)
(* holds or a new one made by the function given to NewFastPool, its Put   *)
(* keeps the object. A map[string]Value is modelled as the set of its      *)
(* keys; the users of the pool write to the maps they got and put back     *)
(* those maps or nil. The field maps is what the pool holds, the field got *)
(* the maps in use.                                                        *)
(***************************************************************************)
PoolKeys == {"a", "b", "c"}

\* the map is handed to the pool as it is
unwiped(s) == s

\* for k, _ := range s { s[k] = nil; delete(s, k) }
RECURSIVE wipe(_)
wipe(s) ==
    IF s = {} THEN s
    ELSE LET k == CHOOSE x \in s : TRUE
         IN wipe(s \ {k})

\* the sequence q without its i-th element
Drop(q, i) == SubSeq(q, 1, i - 1) \o SubSeq(q, i + 1, Len(q))

\* NewStringValuePool(size)
NewStringValuePool(size) ==
    /\ pool.size = 0
    /\ pool' = [size |-> size, maps |-> <<>>, got |-> <<>>]
    /\ call' = [fn |-> "NewStringValuePool", size |-> size]
    /\ UNCHANGED <<cacheVars, metricVars, autoVars, pending, prime, scan>>

\* Get(): this.pool.Get(), one of the maps held
PoolGetHeld(i) ==
    /\ pool.size > 0
    /\ Len(pool.got) < MaxHeld
    /\ i \in DOMAIN pool.maps
    /\ pool' = [pool EXCEPT !.maps = Drop(@, i), !.got = Append(@, pool.maps[i])]
    /\ call' = [fn |-> "Get", result |-> pool.maps[i]]
    /\ UNCHANGED <<cacheVars, metricVars, autoVars, pending, prime, scan>>

\* Get(): this.pool.Get(), a new map: make(map[string]Value, size)
PoolGetNew ==
    /\ pool.size > 0
    /\ Len(pool.maps) + Len(pool.got) < MaxHeld
    /\ pool' = [pool EXCEPT !.got = Append(@, {})]
    /\ call' = [fn |-> "Get", result |-> {}]
    /\ UNCHANGED <<cacheVars, metricVars, autoVars, pending, prime, scan>>

\* a user of the map writes an entry
PoolFill(i, k) ==
    /\ i \in DOMAIN pool.got
    /\ k \notin pool.got[i]
    /\ pool' = [pool EXCEPT !.got[i] = @ \cup {k}]
    /\ UNCHANGED <<cacheVars, metricVars, autoVars, pending, prime, scan, call>>

\* Put(s) of a map that is not nil: what the pool holds afterwards
StringValuePoolPut(p, s) ==
    IF Cardinality(s) > p.size
    THEN p.maps
    ELSE Append(p.maps, wipe(s))

\* Put(s), s one of the maps in use
PoolPut(i) ==
    /\ pool.size > 0
    /\ i \in DOMAIN pool.got
    /\ pool' = [pool EXCEPT !.maps = StringValuePoolPut(pool, pool.got[i]),
                            !.got = Drop(@, i)]
    /\ call' = [fn |-> "Put", nil |-> FALSE, s |-> pool.got[i], before |-> pool.maps]
    /\ UNCHANGED <<cacheVars, metricVars, autoVars, pending, prime, scan>>

\* Put(nil)
PoolPutNil ==
    /\ pool.size > 0
    /\ call' = [fn |-> "Put", nil |-> TRUE, s |-> {}, before |-> pool.maps]
    /\ UNCHANGED <<cacheVars, metricVars, autoVars, pending, prime, scan, pool>>

NextPool ==
    \/ \E size \in 1..MaxPoolSize : NewStringValuePool(size)
    \/ \E i \in 1..MaxHeld : PoolGetHeld(i)
    \/ PoolGetNew
    \/ \E i \in 1..MaxHeld, k \in PoolKeys : PoolFill(i, k)
    \/ \E i \in 1..MaxHeld : PoolPut(i)
    \/ PoolPutNil

SpecPool == InitScan /\ [][NextPool]_vars

(***************************************************************************)
(* The conditional functions for numbers (src/expression/                  *)
(* func_cond_num.go): IFINF, IFNAN and IFNANORINF. The operands are given  *)
(* by the values they evaluate to, none of them failing; a value is        *)
(* written as a string, a float64 by its decimal form or +Inf, NaN.        *)
(***************************************************************************)
MISSING_VALUE == "MISSING"
NULL_VALUE == "NULL"
NilValue == "nil"

Numbers == {"1", "2", "+Inf", "NaN"}
Values == {MISSING_VALUE, NULL_VALUE, "abc"} \cup Numbers

\* value.Type()
TypeOfValue(a) ==
    CASE a = MISSING_VALUE -> "MISSING"
      [] a = NULL_VALUE -> "NULL"
      [] a \in Numbers -> "NUMBER"
      [] OTHER -> "STRING"

\* math.IsInf(f, 0), math.IsNaN(f)
IsInf(f) == f = "+Inf"
IsNaN(f) == f = "NaN"

\* the locals of Evaluate before the loop
CondStart == [null |-> FALSE, missing |-> FALSE, rv |-> NilValue]

\* the body of the loop of IfInf.Evaluate with a number taken whatever came before
IfInfStepAnywhere(st, a) ==
    IF TypeOfValue(a) = "MISSING"
    THEN (IF ~st.null THEN [st EXCEPT !.missing = TRUE] ELSE st)
    ELSE IF TypeOfValue(a) # "NUMBER" THEN [st EXCEPT !.null = TRUE]
    ELSE IF st.rv = NilValue /\ ~IsInf(a) THEN [st EXCEPT !.rv = a]
    ELSE st

\* the body of the loop of IfInf.Evaluate
IfInfStep(st, a) ==
    IF TypeOfValue(a) = "MISSING"
    THEN (IF ~st.null THEN [st EXCEPT !.missing = TRUE] ELSE st)
    ELSE IF TypeOfValue(a) # "NUMBER" THEN [st EXCEPT !.null = TRUE]
    ELSE IF ~st.null /\ st.rv = NilValue
         THEN (IF ~IsInf(a) THEN [st EXCEPT !.rv = a] ELSE st)
    ELSE st

\* the body of the loop of IfNaN.Evaluate
IfNaNStep(st, a) ==
    IF TypeOfValue(a) = "MISSING" THEN st
    ELSE IF TypeOfValue(a) # "NUMBER" THEN [st EXCEPT !.null = TRUE]
    ELSE IF ~st.null /\ st.rv = NilValue
         THEN (IF ~IsNaN(a) THEN [st EXCEPT !.rv = a] ELSE st)
    ELSE st

\* the body of the loop of IfNaNOrInf.Evaluate
IfNaNOrInfStep(st, a) ==
    IF TypeOfValue(a) = "MISSING" THEN st
    ELSE IF TypeOfValue(a) # "NUMBER" THEN [st EXCEPT !.null = TRUE]
    ELSE IF ~st.null /\ st.rv = NilValue
         THEN (IF ~IsInf(a) /\ ~IsNaN(a) THEN [st EXCEPT !.rv = a] ELSE st)
    ELSE st

CondStep(fn, st, a) ==
    CASE fn = "ifinf" -> IfInfStep(st, a)
      [] fn = "ifnan" -> IfNaNStep(st, a)
      [] fn = "ifnanorinf" -> IfNaNOrInfStep(st, a)

\* for _, op := range this.operands
RECURSIVE CondLoop(_, _, _)
CondLoop(fn, st, operands) ==
    IF operands = <<>> THEN st
    ELSE CondLoop(fn, CondStep(fn, st, Head(operands)), Tail(operands))

\* what IfInf.Evaluate returns after the loop
IfInfReturn(st) ==
    IF st.rv # NilValue THEN st.rv
    ELSE IF st.missing THEN MISSING_VALUE
    ELSE NULL_VALUE

\* what IfNaN.Evaluate and IfNaNOrInf.Evaluate return after the loop
IfNaNReturn(st) ==
    IF st.rv # NilValue THEN st.rv ELSE NULL_VALUE

\* Evaluate(item, context) of the three functions
CondEvaluate(fn, operands) ==
    LET st == CondLoop(fn, CondStart, operands)
    IN IF fn = "ifinf" THEN IfInfReturn(st) ELSE IfNaNReturn(st)

CondFunctions == {"ifinf", "ifnan", "ifnanorinf"}

\* the lists of MinArgs() = 2 to MaxOperands operands
RECURSIVE Tuples(_, _)
Tuples(S, n) ==
    IF n = 0 THEN {<<>>}
    ELSE {Append(t, x) : t \in Tuples(S, n - 1), x \in S}

OperandLists == UNION {Tuples(Values, n) : n \in 2..MaxOperands}

Evaluate(fn, operands) ==
    /\ call = NoCall
    /\ call' = [fn |-> fn, operands |-> operands, result |-> CondEvaluate(fn, operands)]
    /\ UNCHANGED <<cacheVars, metricVars, autoVars, pending, prime, scan, pool>>

NextCond == \E fn \in CondFunctions, operands \in OperandLists : Evaluate(fn, operands)

SpecCond == InitScan /\ [][NextCond]_vars

(***************************************************************************)
(* Plan operators written to JSON and read back (src/plan/parallel.go,     *)
(* nest_nl.go, delete.go). An operator is a record of its fields, a JSON   *)
(* object a function from its keys. An expression is a record holding its  *)
(* text; expression.NewStringer, the expressions' MarshalJSON and          *)
(* parser.Parse are not part of the sources at hand and are taken to be    *)
(* inverse to each other, as are KeyspaceRef.MarshalKeyspace and            *)
(* datastore.GetKeyspace for the keyspaces that exist; MakeOperator makes  *)
(* the operator named and has it read the object. A nil pointer is the     *)
(* record [nil |-> TRUE].                                                  *)
(***************************************************************************)
NilValuePtr == [nil |-> TRUE]

\* the result of a call that panics
Panic == [panic |-> TRUE]

\* an empty JSON object
EmptyObject == [k \in {} |-> ""]

\* the value of a key of a JSON object read into a struct field, zero when
\* the key is absent
Field0(r, k, zero) == IF k \in DOMAIN r THEN r[k] ELSE zero

\* expression.NewStringer().Visit(expr), and the JSON form of an expression
Stringer(expr) == expr.text

\* parser.Parse(s)
Parse(text) == [text |-> text]

\* term.MarshalKeyspace(r): the keys the keyspace reference writes
MarshalKeyspace(term) ==
    ("namespace" :> term.namespace) @@ ("keyspace" :> term.keyspace)

\* datastore.GetKeyspace(namespace, bucket, scope, keyspace)
GetKeyspace(namespace, keyspace) == [id |-> namespace \o ":" \o keyspace]

\* getCost, getCardinality: a value that was not written is not available
getCost(v) == IF v > 0 THEN v ELSE -1

\* Parallel.MarshalBase(nil), child being the JSON form of the child
ParallelMarshalBase(this, child) ==
    ("#operator" :> "Parallel")
    @@ (IF this.maxParallelism > 0
        THEN "maxParallelism" :> this.maxParallelism ELSE EmptyObject)
    @@ ("~child" :> child)

\* NLNest.MarshalBase(nil)
NLNestMarshalBase(this, child) ==
    ("#operator" :> "NestedLoopNest")
    @@ ("alias" :> this.alias)
    @@ ("on_clause" :> Stringer(this.onclause))
    @@ (IF this.outer THEN "outer" :> this.outer ELSE EmptyObject)
    @@ (IF this.hintError # "" THEN "hint_not_followed" :> this.hintError ELSE EmptyObject)
    @@ (IF this.cost > 0 THEN "cost" :> this.cost ELSE EmptyObject)
    @@ (IF this.cardinality > 0 THEN "cardinality" :> this.cardinality ELSE EmptyObject)
    @@ ("~child" :> child)

\* SendDelete.MarshalBase(nil); this.term.MarshalKeyspace(r) with this.term
\* nil either panics or writes nothing
SendDeleteMarshalBase(this, nilPanics) ==
    IF this.term = NilValuePtr /\ nilPanics THEN Panic
    ELSE ("#operator" :> "SendDelete")
         @@ (IF this.term = NilValuePtr THEN EmptyObject ELSE MarshalKeyspace(this.term))
         @@ ("alias" :> this.alias)
         @@ (IF this.limit # NilValuePtr THEN "limit" :> Stringer(this.limit) ELSE EmptyObject)

\* json.Marshal(operator)
RECURSIVE Marshal(_, _)
Marshal(o, nilPanics) ==
    CASE o.operator = "Parallel" ->
            LET child == Marshal(o.child, nilPanics)
            IN IF child = Panic THEN Panic ELSE ParallelMarshalBase(o, child)
      [] o.operator = "NestedLoopNest" ->
            LET child == Marshal(o.child, nilPanics)
            IN IF child = Panic THEN Panic ELSE NLNestMarshalBase(o, child)
      [] o.operator = "SendDelete" -> SendDeleteMarshalBase(o, nilPanics)
      [] OTHER -> "#operator" :> o.operator

\* Parallel.UnmarshalJSON(body), child being the operator made of ~child
ParallelUnmarshalJSON(body, child) ==
    [operator |-> "Parallel",
     maxParallelism |-> Field0(body, "maxParallelism", 0),
     child |-> child]

\* NLNest.UnmarshalJSON(body)
NLNestUnmarshalJSON(body, child) ==
    [operator |-> "NestedLoopNest",
     onclause |-> IF Field0(body, "on_clause", "") # ""
                  THEN Parse(body["on_clause"]) ELSE NilValuePtr,
     outer |-> Field0(body, "outer", FALSE),
     alias |-> Field0(body, "alias", ""),
     hintError |-> Field0(body, "hint_not_followed", ""),
     cost |-> getCost(Field0(body, "cost", 0)),
     cardinality |-> getCost(Field0(body, "cardinality", 0)),
     child |-> child]

\* SendDelete.UnmarshalJSON(body): this.term is not assigned
SendDeleteUnmarshalJSON(body) ==
    [operator |-> "SendDelete",
     term |-> NilValuePtr,
     alias |-> Field0(body, "alias", ""),
     limit |-> IF Field0(body, "limit", "") # "" THEN Parse(body["limit"]) ELSE NilValuePtr,
     keyspace |-> GetKeyspace(Field0(body, "namespace", ""), Field0(body, "keyspace", ""))]

\* MakeOperator(name, body)
RECURSIVE MakeOperator(_)
MakeOperator(body) ==
    CASE body["#operator"] = "Parallel" ->
            ParallelUnmarshalJSON(body, MakeOperator(body["~child"]))
      [] body["#operator"] = "NestedLoopNest" ->
            NLNestUnmarshalJSON(body, MakeOperator(body["~child"]))
      [] body["#operator"] = "SendDelete" -> SendDeleteUnmarshalJSON(body)
      [] OTHER -> [operator |-> body["#operator"]]

\* the operators written and read back
Expressions == {Parse("a.x = b.x"), Parse("10")}
Costs == {-1, 0, 1}
Leaves == {[operator |-> "Discard"]}

SendDeletes ==
    {[operator |-> "SendDelete",
      term |-> [namespace |-> "default", keyspace |-> k],
      alias |-> a, limit |-> l,
      keyspace |-> GetKeyspace("default", k)] :
        k \in {"b1", "b2"}, a \in {"b1", "d"}, l \in {NilValuePtr, Parse("10")}}

NLNests ==
    {[operator |-> "NestedLoopNest", outer |-> o, alias |-> a, onclause |-> e,
      hintError |-> h, cost |-> c, cardinality |-> c, child |-> ch] :
        o \in BOOLEAN, a \in {"b", "c"}, e \in Expressions,
        h \in {"", "USE NL"}, c \in Costs, ch \in Leaves}

Parallels ==
    {[operator |-> "Parallel", maxParallelism |-> m, child |-> ch] :
        m \in 0..MaxParallel,
        ch \in Leaves \cup SendDeletes \cup {n \in NLNests : n.cost = 1 /\ n.outer}}

Operators == SendDeletes \cup NLNests \cup Parallels

\* an operator is written, read back and written again
RoundTrip(o, nilPanics) ==
    /\ call = NoCall
    /\ LET body == Marshal(o, nilPanics)
           decoded == MakeOperator(body)
       IN call' = [fn |-> "RoundTrip", operator |-> o, body |-> body,
                   decoded |-> decoded, again |-> Marshal(decoded, nilPanics)]
    /\ UNCHANGED <<cacheVars, metricVars, autoVars, pending, prime, scan, pool>>

NextRoundTrip == \E o \in Operators, nilPanics \in BOOLEAN : RoundTrip(o, nilPanics)

SpecRoundTrip == InitScan /\ [][NextRoundTrip]_vars

(***************************************************************************)
(* buildPrimaryIndex (src/planner/build_scan_primary.go). The keyspace is  *)
(* given by its indexers, an indexer by the states of its primary indexes  *)
(* or by the failure of PrimaryIndexes(); the hinted indexes by whether    *)
(* they are primary and can be cast to a PrimaryIndex. An error made by    *)
(* fmt.Errorf is the record of its format and arguments.                   *)
(***************************************************************************)
NoIndexAvailable ==
    "No index available on keyspace %s that matches your query. Use CREATE PRIMARY INDEX ON %s to create a primary index, or check that your expected index is online."
NotOnline == "Primary index %s not online."
UnableToCast == "Unable to cast index %s to primary index"
IndexerFailed == "indexer error"

Errorf(format, args) == [format |-> format, args |-> args]

\* a nil error
NilError == [format |-> "", args |-> <<>>]

\* the name of the j-th primary index of the i-th indexer
PrimaryName(i, j) == "primary" \o ToString(i) \o ToString(j)

\* the loop over the hinted indexes: the first primary one decides
RECURSIVE PreferHints(_)
PreferHints(indexes) ==
    IF indexes = <<>> THEN [found |-> FALSE]
    ELSE IF ~Head(indexes).IsPrimary THEN PreferHints(Tail(indexes))
    ELSE IF Head(indexes).castable
    THEN [found |-> TRUE, primary |-> Head(indexes).name, err |-> NilError]
    ELSE [found |-> TRUE, primary |-> NilValue,
          err |-> Errorf(UnableToCast, <<Head(indexes).name>>)]

\* the loop over the primary indexes, returning the first one whatever its state
FirstOfAnyState(states, i, j, primary) ==
    IF j > Len(states) THEN [done |-> FALSE, primary |-> primary]
    ELSE [done |-> TRUE, primary |-> PrimaryName(i, j), err |-> NilError]

\* the loop over the primary indexes of the i-th indexer, from the j-th on:
\* primary is assigned each index in turn
RECURSIVE FirstOnlineOf(_, _, _, _)
FirstOnlineOf(states, i, j, primary) ==
    IF j > Len(states) THEN [done |-> FALSE, primary |-> primary]
    ELSE IF states[j] = "ONLINE"
    THEN [done |-> TRUE, primary |-> PrimaryName(i, j), err |-> NilError]
    ELSE FirstOnlineOf(states, i, j + 1, PrimaryName(i, j))

\* the loop over the indexers, from the i-th on
RECURSIVE FirstOnline(_, _, _)
FirstOnline(indexers, i, primary) ==
    IF i > Len(indexers) THEN [done |-> FALSE, primary |-> primary]
    ELSE IF indexers[i].er
    THEN [done |-> TRUE, primary |-> NilValue, err |-> Errorf(IndexerFailed, <<>>)]
    ELSE LET r == FirstOnlineOf(indexers[i].states, i, 1, primary)
         IN IF r.done THEN r ELSE FirstOnline(indexers, i + 1, r.primary)

\* the end of buildPrimaryIndex, the keyspace being named whatever was found
NoOnlinePrimarySuggestingAlways(primary, node) ==
    [primary |-> NilValue, err |-> Errorf(NoIndexAvailable, <<node, node>>)]

\* the end of buildPrimaryIndex: no primary index is online
NoOnlinePrimary(primary, node) ==
    IF primary = NilValue
    THEN [primary |-> NilValue, err |-> Errorf(NoIndexAvailable, <<node, node>>)]
    ELSE [primary |-> NilValue, err |-> Errorf(NotOnline, <<primary>>)]

\* buildPrimaryIndex(keyspace, indexes, node, force)
buildPrimaryIndex(indexers, indexes, node, force) ==
    LET hint == PreferHints(indexes)
        r == FirstOnline(indexers, 1, NilValue)
    IN IF hint.found THEN [primary |-> hint.primary, err |-> hint.err]
       ELSE IF force THEN [primary |-> NilValue, err |-> NilError]
       ELSE IF r.done THEN [primary |-> r.primary, err |-> r.err]
       ELSE NoOnlinePrimary(r.primary, node)

IndexStates == {"ONLINE", "DEFERRED"}

IndexerValues ==
    {[er |-> TRUE, states |-> <<>>]}
    \cup {[er |-> FALSE, states |-> t] :
            t \in UNION {Tuples(IndexStates, n) : n \in 0..MaxPrimaries}}

KeyspaceIndexers == UNION {Tuples(IndexerValues, n) : n \in 0..MaxIndexers}

\* the hinted indexes the planner hands over: indexes that are online
HintedIndexes ==
    {<<>>,
     <<[name |-> "ix1", IsPrimary |-> FALSE, castable |-> FALSE, state |-> "ONLINE"]>>,
     <<[name |-> "ix1", IsPrimary |-> FALSE, castable |-> FALSE, state |-> "ONLINE"],
       [name |-> "hinted", IsPrimary |-> TRUE, castable |-> TRUE, state |-> "ONLINE"]>>,
     <<[name |-> "hinted", IsPrimary |-> TRUE, castable |-> FALSE, state |-> "ONLINE"]>>}

KeyspaceNames == {"default:b1"}

BuildPrimaryIndex(indexers, indexes, node, force) ==
    /\ call = NoCall
    /\ call' = [fn |-> "buildPrimaryIndex", indexers |-> indexers, indexes |-> indexes,
                node |-> node, force |-> force,
                result |-> buildPrimaryIndex(indexers, indexes, node, force)]
    /\ UNCHANGED <<cacheVars, metricVars, autoVars, pending, prime, scan, pool>>

\* one call is made
NextPrimary ==
    /\ call = NoCall
    /\ \E indexers \in KeyspaceIndexers, indexes \in HintedIndexes,
          node \in KeyspaceNames, force \in BOOLEAN :
           BuildPrimaryIndex(indexers, indexes, node, force)

SpecPrimary == InitScan /\ [][NextPrimary]_vars

(***************************************************************************)
(* sarg.VisitLT (src/planner/sarg_lt.go). A value is given by its place in *)
(* the collation order: 0 is MISSING, 1 is NULL, the others follow (false, *)
(* true, numbers, strings, ...). An operand of the predicate is the index  *)
(* key, a constant, a field that is not the key, or an expression that     *)
(* depends on the key and is not constant. SubsetOf, EquivalentTo, Static  *)
(* and DependsOn are not part of the sources at hand; they follow the      *)
(* spec. Expressions are given as sequences, nil being the empty one.      *)
(***************************************************************************)
MISSING == 0
NULL == 1
CollationValues == 0..MaxCollation

Constant(c) == [kind |-> "constant", value |-> c]
KeyOperand == [kind |-> "key"]
OtherField == [kind |-> "field"]
KeyExpression == [kind |-> "keyexpr"]

SELF_SPANS == [kind |-> "self"]
VALUED_SPANS == [kind |-> "valued"]
NilSpans == [kind |-> "nil"]
NULL_EXPRS == <<NULL>>

\* expr.EquivalentTo(this.key), the key not being the predicate itself
EquivalentToKey(expr, keyIsPred) == ~keyIsPred /\ expr.kind = "key"

\* expr.Static(): the constant the expression is, or nil
Static(expr) == IF expr.kind = "constant" THEN <<expr.value>> ELSE <<>>

\* pred.DependsOn(this.key)
DependsOnKey(pred, keyIsPred) ==
    \/ keyIsPred
    \/ pred.first.kind \in {"key", "keyexpr"}
    \/ pred.second.kind \in {"key", "keyexpr"}

\* SubsetOf(pred, this.key): among the cases of the model, the index key
\* is the predicate itself
SubsetOf(pred, keyIsPred) == keyIsPred

\* plan.Spans{span} with Exact and Inclusion set
ExactSpan(low, high) ==
    [kind |-> "spans", Low |-> low, High |-> high, Inclusion |-> "NEITHER", Exact |-> TRUE]

\* sarg.VisitLT(pred)
VisitLT(pred, keyIsPred) ==
    IF SubsetOf(pred, keyIsPred) THEN SELF_SPANS
    ELSE IF EquivalentToKey(pred.first, keyIsPred)
    THEN (IF Static(pred.second) = <<>> THEN VALUED_SPANS
          ELSE ExactSpan(NULL_EXPRS, Static(pred.second)))
    ELSE IF EquivalentToKey(pred.second, keyIsPred)
    THEN (IF Static(pred.first) = <<>> THEN VALUED_SPANS
          ELSE ExactSpan(Static(pred.first), <<>>))
    ELSE IF DependsOnKey(pred, keyIsPred) THEN VALUED_SPANS
    ELSE NilSpans

LTOperands ==
    {KeyOperand, OtherField, KeyExpression} \cup {Constant(c) : c \in CollationValues}

LTPredicates == {[first |-> a, second |-> b] : a \in LTOperands, b \in LTOperands}

Sarg(pred, keyIsPred) ==
    /\ call = NoCall
    /\ call' = [fn |-> "VisitLT", pred |-> pred, keyIsPred |-> keyIsPred,
                result |-> VisitLT(pred, keyIsPred)]
    /\ UNCHANGED <<cacheVars, metricVars, autoVars, pending, prime, scan, pool>>

NextSarg == \E pred \in LTPredicates, keyIsPred \in BOOLEAN : Sarg(pred, keyIsPred)

SpecSarg == InitScan /\ [][NextSarg]_vars

(***************************************************************************)
(* algebra.Projection and algebra.ResultTerm (src/algebra/result.go). A    *)
(* term holds its star marker, its explicit alias (as), the alias of its   *)
(* expression (expr.Alias(), "" when the expression has none) and the      *)
(* alias the projection gives it.                                          *)
(***************************************************************************)
Digits == <<"0", "1", "2", "3", "4", "5", "6", "7", "8", "9">>

\* strconv.Itoa(n), n >= 0
RECURSIVE Itoa(_)
Itoa(n) == IF n < 10 THEN Digits[n + 1] ELSE Itoa(n \div 10) \o Digits[(n % 10) + 1]

\* NewResultTerm(expr, star, as)
NewResultTerm(expr, star, as) == [expr |-> expr, star |-> star, as |-> as, alias |-> ""]

\* ResultTerm.setAlias(a) with the number a left as it was
setAliasWithoutCounting(this, a) ==
    IF this.star
    THEN [term |-> this, a |-> a]
    ELSE LET alias == IF this.as # "" THEN this.as ELSE this.expr
         IN  IF alias = ""
             THEN [term |-> [this EXCEPT !.alias = "$" \o Itoa(a)], a |-> a]
             ELSE [term |-> [this EXCEPT !.alias = alias], a |-> a]

\* ResultTerm.setAlias(a): the term afterwards and the number returned
setAlias(this, a) ==
    IF this.star
    THEN [term |-> this, a |-> a]
    ELSE LET alias == IF this.as # "" THEN this.as ELSE this.expr
         IN  IF alias = ""
             THEN [term |-> [this EXCEPT !.alias = "$" \o Itoa(a)], a |-> a + 1]
             ELSE [term |-> [this EXCEPT !.alias = alias], a |-> a]

\* Projection.setAliases(): the loop over this.terms, from term i on with number a
RECURSIVE setAliasesFrom(_, _, _)
setAliasesFrom(terms, i, a) ==
    IF i > Len(terms)
    THEN terms
    ELSE LET r == setAlias(terms[i], a)
         IN  setAliasesFrom([terms EXCEPT ![i] = r.term], i + 1, r.a)

setAliases(this) == [this EXCEPT !.terms = setAliasesFrom(this.terms, 1, 1)]

\* NewProjection(distinct, terms)
NewProjection(distinct, terms) ==
    setAliases([distinct |-> distinct, raw |-> FALSE, terms |-> terms])

\* NewRawProjection(distinct, expr)
NewRawProjection(distinct, expr) ==
    setAliases([distinct |-> distinct, raw |-> TRUE,
                terms |-> <<NewResultTerm(expr, FALSE, "")>>])

ExprAliases == {"", "x"}
AsAliases == {"", "a", "$1"}
ResultTerms == {NewResultTerm(e, st, as) :
                    e \in ExprAliases, st \in BOOLEAN, as \in AsAliases}
TermLists == UNION {Tuples(ResultTerms, n) : n \in 0..MaxTerms}

\* a call of NewProjection
Project(distinct, terms) ==
    /\ call = NoCall
    /\ call' = [fn |-> "NewProjection", terms |-> terms,
                result |-> NewProjection(distinct, terms)]
    /\ UNCHANGED <<cacheVars, metricVars, autoVars, pending, prime, scan, pool>>

\* a call of NewRawProjection
ProjectRaw(distinct, expr) ==
    /\ call = NoCall
    /\ call' = [fn |-> "NewRawProjection", terms |-> <<NewResultTerm(expr, FALSE, "")>>,
                result |-> NewRawProjection(distinct, expr)]
    /\ UNCHANGED <<cacheVars, metricVars, autoVars, pending, prime, scan, pool>>

\* one call is made
NextProjection ==
    \/ /\ call = NoCall
       /\ \E distinct \in BOOLEAN, terms \in TermLists : Project(distinct, terms)
    \/ /\ call = NoCall
       /\ \E distinct \in BOOLEAN, expr \in ExprAliases : ProjectRaw(distinct, expr)

SpecProjection == InitScan /\ [][NextProjection]_vars

(***************************************************************************)
(* preparedCache.GetText (src/prepareds/prepareds.go). A text is the       *)
(* sequence of its characters; offsets count from 0 as in Go.              *)
(***************************************************************************)
LowerCase == <<"a", "c", "d", "e", "f", "m", "n", "o", "p", "r", "s", "t">>
UpperCase == <<"A", "C", "D", "E", "F", "M", "N", "O", "P", "R", "S", "T">>

\* strings.ToUpper(s)
ToUpper(s) ==
    [i \in DOMAIN s |->
        IF \E j \in DOMAIN LowerCase : LowerCase[j] = s[i]
        THEN UpperCase[CHOOSE j \in DOMAIN LowerCase : LowerCase[j] = s[i]]
        ELSE s[i]]

\* s[from:to]
Slice(s, from, to) == SubSeq(s, from + 1, to)

\* strings.Index(s, substr): where substr first starts in s, or -1
Index(s, substr) ==
    LET at == {i \in 0..(Len(s) - Len(substr)) : Slice(s, i, i + Len(substr)) = substr}
    IN  IF at = {} THEN -1 ELSE CHOOSE i \in at : \A j \in at : i <= j

FORCE == <<"F", "O", "R", "C", "E">>

\* preparedCache.GetText(text, offset): the text returned, or the panic of
\* a slice that starts beyond the end of prepare
GetText(text, offset) ==
    LET prepare == Slice(text, 0, offset)
        i == Index(ToUpper(prepare), FORCE)
    IN  IF i < 0
        THEN [panic |-> FALSE, text |-> text]
        ELSE IF i + 6 > Len(prepare)
        THEN [panic |-> TRUE, text |-> <<>>]
        ELSE [panic |-> FALSE,
              text |-> Slice(prepare, 0, i) \o Slice(prepare, i + 6, Len(prepare))
                           \o Slice(text, offset, Len(text))]

PREPARE == <<"P", "R", "E", "P", "A", "R", "E", " ">>
ForceKeywords == {FORCE, <<"f", "o", "r", "c", "e">>, <<"F", "o", "r", "c", "e">>}
Separators == {<<" ">>, <<"\t">>}
\* the names p, s1, forced and enForce, between the keywords and the statement
PreparedNames == {<<"p">>, <<"s", "1">>, <<"f", "o", "r", "c", "e", "d">>,
                  <<"e", "n", "F", "o", "r", "c", "e">>}
\* " AS " and " FROM "
NameKeywords == {<<" ", "A", "S", " ">>, <<" ", "F", "R", "O", "M", " ">>}
\* no name (an anonymous statement), or a name and its keyword
NameParts == {<<>>} \cup {n \o k : n \in PreparedNames, k \in NameKeywords}
\* the statements "SELECT 1", "SELECT force" and "DELETE FROM t"
Statements == {<<"S", "E", "L", "E", "C", "T", " ", "1">>,
               <<"S", "E", "L", "E", "C", "T", " ", "f", "o", "r", "c", "e">>,
               <<"D", "E", "L", "E", "T", "E", " ", "F", "R", "O", "M", " ", "t">>}

\* PREPARE name AS stmt
PlainText(name, stmt) == PREPARE \o name \o stmt

\* PREPARE FORCE name AS stmt
ForcedText(kw, sep, name, stmt) == PREPARE \o kw \o sep \o name \o stmt

\* a call of GetText for PREPARE name AS stmt, the offset where stmt starts
TextOfPlain(name, stmt) ==
    /\ call = NoCall
    /\ call' = [fn |-> "GetText", forced |-> FALSE, name |-> name, stmt |-> stmt,
                text |-> PlainText(name, stmt), offset |-> Len(PREPARE \o name),
                result |-> GetText(PlainText(name, stmt), Len(PREPARE \o name))]
    /\ UNCHANGED <<cacheVars, metricVars, autoVars, pending, prime, scan, pool>>

\* a call of GetText for PREPARE FORCE name AS stmt, the offset where stmt starts
TextOfForced(kw, sep, name, stmt) ==
    /\ call = NoCall
    /\ call' = [fn |-> "GetText", forced |-> TRUE, name |-> name, stmt |-> stmt,
                text |-> ForcedText(kw, sep, name, stmt),
                offset |-> Len(PREPARE \o kw \o sep \o name),
                result |-> GetText(ForcedText(kw, sep, name, stmt),
                                   Len(PREPARE \o kw \o sep \o name))]
    /\ UNCHANGED <<cacheVars, metricVars, autoVars, pending, prime, scan, pool>>

NextText ==
    \/ \E name \in NameParts, stmt \in Statements : TextOfPlain(name, stmt)
    \/ \E kw \in ForceKeywords, sep \in Separators, name \in NameParts, stmt \in Statements :
           TextOfForced(kw, sep, name, stmt)

SpecText == InitScan /\ [][NextText]_vars

(***************************************************************************)
(* SpecAutoPlan: GetAutoPreparePlan against a cache that AddAutoPreparePlan*)
(* fills with plans built for the datastore as it is, for statements       *)
(* prepared under two index API versions; GetPrepared with OPT_VERIFY      *)
(* populates the entries and prepares stale plans again, and the           *)
(* datastore's schema changes.                                             *)
(***************************************************************************)
\* the plan the planner builds for a statement now, named as PrepareStatement names it
AutoPlanNow(text, indexApiVersion) ==
    Prepared(DoGetAutoPrepareName(text, indexApiVersion, FeatureControls), text, schema,
             indexApiVersion, FeatureControls)

AutoNames == {DoGetAutoPrepareName(t, v, FeatureControls) : t \in Texts, v \in ApiVersions}

InitAutoPlan ==
    /\ lru = <<>>
    /\ entries = EmptyMap
    /\ limit = MaxLimit
    /\ schema = 1
    /\ res = Result("PreparedsInit", "", Outcome(<<>>, NoError, "", NilPlan, FALSE))
    /\ recent = <<>>
    /\ rec = NoRecorders
    /\ sampled = NoSamples
    /\ named = <<>>
    /\ req = NoRequests
    /\ pending = NoPeers
    /\ prime = NoPrime
    /\ scan = NoScan
    /\ pool = NoPool
    /\ call = NoCall

NextAutoPlan ==
    \/ \E t \in Texts, v \in ApiVersions :
          AddAutoPreparePlan("SELECT", 0, AutoPlanNow(t, v), MaxClock)
    \/ \E n \in AutoNames, t \in Texts, v \in ApiVersions :
          GetAutoPreparePlan(n, t, v, FeatureControls, MaxClock)
    \/ \E n \in AutoNames : GetPrepared(n, {OPT_VERIFY}, MaxClock, TRUE)
    \/ SchemaChange

SpecAutoPlan == InitAutoPlan /\ [][NextAutoPlan]_vars

(***************************************************************************)
(* SpecDecodeError: DecodePrepared, tracked or not and distributed or not, *)
(* on a node with peers, of what DistributedEncodings holds, while the     *)
(* statement p1 is added to the cache with either text and deleted and the *)
(* schema changes.                                                         *)
(***************************************************************************)
NextDecodeError ==
    \/ \E p \in PlansFor({Distributed1}, Texts, {1}) : AddPrepared(p)
    \/ DeletePrepared(Distributed1)
    \/ \E n \in {"", Distributed1, "p2"}, e \in DistributedEncodings, t \in BOOLEAN,
          d \in BOOLEAN, ok \in BOOLEAN :
          DecodePrepared(n, e, t, d, MaxClock, ok)
    \/ \E m \in pending.msgs, warn \in BOOLEAN : DoRemoteOps(m, warn)
    \/ SchemaChange

SpecDecodeError == InitDistribute /\ [][NextDecodeError]_vars

(***************************************************************************)
(* SpecLookupDelete: the steps of getPrepared with VERIFY for p1, run by   *)
(* several requests, while clients call AddPrepared and DeletePrepared for *)
(* the same name and the schema changes. The requests that hold the entry  *)
(* when it is deleted go on with that entry, which is in the cache no more. *)
(***************************************************************************)
\* the requests that are in getPrepared with the cache's entry
HoldingEntry == {i \in Lookups : req[i].pc \notin {"idle", "done"} /\ req[i].ce.cached}

\* DeletePrepared(p1)
DeleteLooked ==
    LET o == DoDeletePrepared(Cache, Looked)
    IN /\ SetCache(o.c)
       /\ res' = Result("DeletePrepared", Looked, o)
       /\ recent' = Without(recent, Looked)
       /\ req' = [i \in Lookups |->
                    IF i \in HoldingEntry
                    THEN [req[i] EXCEPT !.ce = [cached |-> FALSE,
                                                populated |-> entries[Looked].populated,
                                                holders |-> HoldingEntry]]
                    ELSE req[i]]
       /\ UNCHANGED <<schema, metricVars, named, pending, restVars>>

NextLookupDelete ==
    \/ \E i \in Lookups, track \in BOOLEAN : LookupGet(i, track)
    \/ \E i \in Lookups : LookupCheck(i)
    \/ \E i \in Lookups : LookupShort(i)
    \/ \E i \in Lookups : LookupLock(i)
    \/ \E i \in Lookups : LookupLocked(i)
    \/ \E i \in Lookups : LookupPopulate(i)
    \/ \E i \in Lookups : LookupUnlock(i)
    \/ \E i \in Lookups, ok \in BOOLEAN : LookupReprepare(i, ok)
    \/ \E i \in Lookups : LookupAdd(i)
    \/ \E p \in LookedPlans : AddPrepared(p)
    \/ DeleteLooked
    \/ SchemaChange

SpecLookupDelete == InitLookups /\ [][NextLookupDelete]_vars

(***************************************************************************)
(* SpecOffsets: GetText called once with a PREPARE text and any offset     *)
(* into it, from 0 to the length of the text.                              *)
(***************************************************************************)
PrepareTexts ==
    {PlainText(name, stmt) : name \in NameParts, stmt \in Statements}
    \cup {ForcedText(kw, sep, name, stmt) :
             kw \in ForceKeywords, sep \in Separators, name \in NameParts, stmt \in Statements}

\* a call of GetText(text, offset)
TextAt(text, offset) ==
    /\ call' = [fn |-> "GetTextAt", text |-> text, offset |-> offset,
                result |-> GetText(text, offset)]
    /\ UNCHANGED <<cacheVars, metricVars, autoVars, pending, prime, scan, pool>>

NextOffsets ==
    /\ call = NoCall
    /\ \E text \in PrepareTexts : \E offset \in 0..Len(text) : TextAt(text, offset)

SpecOffsets == InitScan /\ [][NextOffsets]_vars

(***************************************************************************)
(* SpecReadonly: Context.PrepareStatement called one at a time, with and   *)
(* without readonly and autoPrepare, for a SELECT, an UPDATE and an        *)
(* EXECUTE of the prepared statement p1, while AddPrepared and             *)
(* DeletePrepared put a SELECT or an UPDATE under the name p1. The plan of *)
(* an UPDATE is not read-only; the plans of the other statements are.      *)
(***************************************************************************)
\* plan.Prepared.Readonly()
Readonly(prepared) == prepared.Type # "UPDATE"

NOT_READONLY == "not a readonly request"

ReadonlyStatements == {"SELECT 1", "UPDATE t SET a = 1", "EXECUTE p1"}

\* the plans a client prepares under the name p1
ExecutedPlans ==
    {Prepared(Executed, t, 1, ApiVersion, FeatureControls) :
        t \in {"SELECT 1", "UPDATE t SET a = 1"}}

\* Context.PrepareStatement with its readonly argument: the cache it
\* leaves, the plan and the error it returns, isPrepared, where the plan
\* came from and the calls made into the cache. args says that named or positional arguments came with
\* the request
DoPrepareStatementReadonly(c, statement, args, subquery, readonly, autoPrepare, when) ==
    LET auto == autoPrepare /\ ~(args \/ subquery)
        name == IF auto
                THEN DoGetAutoPrepareName(statement, ApiVersion, FeatureControls)
                ELSE ""
        g == DoGetAutoPreparePlan(c, name, statement, ApiVersion, FeatureControls, when)
        looked == auto /\ name # ""
        c1 == IF looked THEN g.c ELSE c
        built == Prepared("", statement, schema, ApiVersion, FeatureControls)
    IN IF looked /\ g.plan # NilPlan
       THEN IF readonly /\ ~Readonly(g.plan)
            THEN [c |-> g.c, err |-> NOT_READONLY, plan |-> NilPlan,
                  isPrepared |-> FALSE, bcast |-> FALSE, from |-> "auto",
                  calls |-> {"GetAutoPreparePlan"}]
            ELSE [c |-> g.c, err |-> NoError, plan |-> g.plan,
                  isPrepared |-> TRUE, bcast |-> FALSE, from |-> "auto",
                  calls |-> {"GetAutoPreparePlan"}]
       ELSE IF readonly /\ ~Readonly(built)
       THEN [c |-> c1, err |-> NOT_READONLY, plan |-> NilPlan,
             isPrepared |-> FALSE, bcast |-> FALSE, from |-> "planner",
             calls |-> IF looked THEN {"GetAutoPreparePlan"} ELSE {}]
       ELSE IF TypeOf(statement) = "EXECUTE"
       THEN LET e == getPrepared(c1, Executed, {OPT_TRACK, OPT_REMOTE, OPT_VERIFY},
                                 when, TRUE)
            IN [c |-> e.c, err |-> e.err, plan |-> e.plan,
                isPrepared |-> e.err = NoError, bcast |-> e.bcast, from |-> "prepared",
                calls |-> (IF looked THEN {"GetAutoPreparePlan"} ELSE {})
                             \cup {"GetPrepared"}]
       ELSE IF auto
       THEN LET named_ == [built EXCEPT !.Name = name]
                a == DoAddAutoPreparePlan(c1, TypeOf(statement), 0, named_, when)
            IN [c |-> a.c, err |-> NoError, plan |-> named_, isPrepared |-> FALSE,
                bcast |-> FALSE, from |-> "planner",
                calls |-> {"GetAutoPreparePlan", "AddAutoPreparePlan"}]
       ELSE [c |-> c1, err |-> NoError, plan |-> built, isPrepared |-> FALSE,
             bcast |-> FALSE, from |-> "planner", calls |-> {}]

PrepareStatementReadonly(statement, args, subquery, readonly, autoPrepare, when) ==
    \E o \in {DoPrepareStatementReadonly(Cache, statement, args, subquery, readonly,
                                        autoPrepare, when)} :
       /\ \A n \in Cached(Cache) : entries[n].Uses < MaxUses
       /\ SetCache(o.c)
       /\ res' = [op |-> "PrepareStatement", name |-> statement, err |-> o.err,
                  msg |-> "", plan |-> o.plan, bcast |-> o.bcast, before |-> lru,
                  readonly |-> readonly, isPrepared |-> o.isPrepared, from |-> o.from]
       /\ recent' =
            LET name == DoGetAutoPrepareName(statement, ApiVersion, FeatureControls)
                r1 == IF "GetAutoPreparePlan" \in o.calls /\ name \in Cached(Cache)
                      THEN Touched(recent, name, limit) ELSE recent
                r2 == IF "GetPrepared" \in o.calls /\ Executed \in Cached(Cache)
                      THEN Touched(r1, Executed, limit) ELSE r1
            IN IF "AddAutoPreparePlan" \in o.calls /\ name \in Cached(o.c)
               THEN Touched(r2, name, limit) ELSE r2
       /\ pending' = Distributed(o)
       /\ UNCHANGED <<schema, metricVars, autoVars, restVars>>

NextReadonly ==
    \/ \E t \in ReadonlyStatements, a \in BOOLEAN, sq \in BOOLEAN, ro \in BOOLEAN,
          ap \in BOOLEAN : PrepareStatementReadonly(t, a, sq, ro, ap, MaxClock)
    \/ \E p \in ExecutedPlans : AddPrepared(p)
    \/ DeletePrepared(Executed)

SpecReadonly == InitSkip /\ [][NextReadonly]_vars

(***************************************************************************)
(* SpecComplete: Context.DoStatementComplete, called once for a statement  *)
(* of some type that succeeded or failed, by a context with or without a   *)
(* transaction context. The statements it has ExecuteTranStatement run     *)
(* succeed or fail; the record issued keeps them in the order they were    *)
(* run, deleted counts the calls of transactions.DeleteTransContext. The   *)
(* context's txContext is the same throughout the call.                    *)
(***************************************************************************)
TranControlTypes ==
    {"SET_TRANSACTION_ISOLATION", "SAVEPOINT", "ROLLBACK_SAVEPOINT",
     "START_TRANSACTION", "COMMIT", "ROLLBACK"}

CompletedTypes == TranControlTypes \cup {"SELECT", "UPDATE"}

\* var implicitTranStmts
implicitTranStmts ==
    [t \in {"START", "COMMIT", "ROLLBACK"} |->
        IF t = "START" THEN "START TRANSACTION"
        ELSE IF t = "COMMIT" THEN "COMMIT TRANSACTION" ELSE "ROLLBACK TRANSACTION"]

UNKNOWN_STATEMENT == "unknown statement"

NO_TXID == "StartTransactionError"

\* the error of a transaction statement that fails
TranError(stmtType) == stmtType \o " failed"

\* what happens to a statement ExecuteTranStatement runs: it succeeds, it
\* fails, or it succeeds and gives no transaction id
TranOutcomes == {"ok", "error", "notxid"}

\* executeTranStatementAtomicity(stmtType): the error returned
executeTranStatementAtomicity(stmtType, tx, outcome) ==
    IF ~tx THEN NoError
    ELSE IF stmtType \in {"START", "COMMIT", "ROLLBACK"}
    THEN IF outcome = "error" THEN TranError(stmtType) ELSE NoError
    ELSE UNKNOWN_STATEMENT

\* ExecuteTranStatement(stmtType, stmtAtomicity): the error returned
ExecuteTranStatement(stmtType, stmtAtomicity, tx, outcome) ==
    IF stmtAtomicity THEN executeTranStatementAtomicity(stmtType, tx, outcome)
    ELSE IF stmtType \notin DOMAIN implicitTranStmts THEN UNKNOWN_STATEMENT
    ELSE IF outcome = "error" THEN TranError(stmtType)
    ELSE IF stmtType = "START" /\ outcome = "notxid" THEN NO_TXID
    ELSE NoError

\* where DoStatementComplete goes after ExecuteTranStatement(tranStmt, ...)
\* in the default case, always on to the deletion
AfterTranStmtWithoutRollback(tranStmt, err, tx) == "delete"

\* where DoStatementComplete goes after ExecuteTranStatement(tranStmt, ...)
\* in the default case
AfterTranStmt(tranStmt, err, tx) ==
    IF err # NoError /\ tranStmt = "COMMIT" /\ tx THEN "rollback" ELSE "delete"

\* DoStatementComplete(stmtType, success) is entered, up to the switch
DoStatementComplete(stmtType, success, tx, txImplicit, implicit) ==
    /\ call = NoCall
    /\ call' = [fn |-> "DoStatementComplete", stmtType |-> stmtType,
                success |-> success, tx |-> tx, txImplicit |-> txImplicit,
                implicit |-> implicit, issued |-> <<>>, err |-> NoError,
                first |-> NoError, deleted |-> 0,
                pc |-> IF ~tx THEN "done"
                       ELSE IF stmtType \in {"SET_TRANSACTION_ISOLATION", "SAVEPOINT",
                                             "ROLLBACK_SAVEPOINT"}
                       THEN "done"
                       ELSE IF stmtType \in {"START_TRANSACTION", "COMMIT", "ROLLBACK"}
                       THEN IF ~success THEN "controlRollback" ELSE "controlDelete"
                       ELSE "execute"]
    /\ UNCHANGED <<cacheVars, metricVars, autoVars, pending, prime, scan, pool>>

\* case START_TRANSACTION, COMMIT, ROLLBACK, not successful:
\* _, _, err = this.ExecuteTranStatement("ROLLBACK", false)
ControlRollback(outcome) ==
    /\ call.fn = "DoStatementComplete"
    /\ call.pc = "controlRollback"
    /\ call' = [call EXCEPT
                  !.issued = Append(@, [stmt |-> "ROLLBACK", atomicity |-> FALSE]),
                  !.err = ExecuteTranStatement("ROLLBACK", FALSE, call.tx, outcome),
                  !.pc = "controlDelete"]
    /\ UNCHANGED <<cacheVars, metricVars, autoVars, pending, prime, scan, pool>>

\* case START_TRANSACTION, COMMIT, ROLLBACK: the context is deleted unless a
\* START TRANSACTION succeeded
ControlDelete ==
    /\ call.fn = "DoStatementComplete"
    /\ call.pc = "controlDelete"
    /\ call' = [call EXCEPT
                  !.deleted = IF call.tx /\ (call.stmtType # "START_TRANSACTION"
                                               \/ ~call.success)
                              THEN @ + 1 ELSE @,
                  !.pc = "done"]
    /\ UNCHANGED <<cacheVars, metricVars, autoVars, pending, prime, scan, pool>>

\* default: _, _, err = this.ExecuteTranStatement(tranStmt, !this.txImplicit)
ExecuteTranStmt(outcome) ==
    LET tranStmt == IF call.success THEN "COMMIT" ELSE "ROLLBACK"
        err == ExecuteTranStatement(tranStmt, ~call.txImplicit, call.tx, outcome)
    IN /\ call.fn = "DoStatementComplete"
       /\ call.pc = "execute"
       /\ call' = [call EXCEPT
                     !.issued = Append(@, [stmt |-> tranStmt,
                                           atomicity |-> ~call.txImplicit]),
                     !.err = err,
                     !.first = err,
                     !.pc = AfterTranStmt(tranStmt, err, call.tx)]
       /\ UNCHANGED <<cacheVars, metricVars, autoVars, pending, prime, scan, pool>>

\* default: this.ExecuteTranStatement("ROLLBACK", !this.txImplicit), its
\* error dropped
RollbackFailedCommit(outcome) ==
    /\ call.fn = "DoStatementComplete"
    /\ call.pc = "rollback"
    /\ call' = [call EXCEPT
                  !.issued = Append(@, [stmt |-> "ROLLBACK",
                                        atomicity |-> ~call.txImplicit]),
                  !.pc = "delete"]
    /\ UNCHANGED <<cacheVars, metricVars, autoVars, pending, prime, scan, pool>>

\* default: the context of an implicit transaction is deleted
DeleteImplicit ==
    /\ call.fn = "DoStatementComplete"
    /\ call.pc = "delete"
    /\ call' = [call EXCEPT
                  !.deleted = IF call.tx /\ call.implicit THEN @ + 1 ELSE @,
                  !.pc = "done"]
    /\ UNCHANGED <<cacheVars, metricVars, autoVars, pending, prime, scan, pool>>

\* the steps of DoStatementComplete once it is entered
CompleteStep ==
    \/ \E outcome \in TranOutcomes : ControlRollback(outcome)
    \/ ControlDelete
    \/ \E outcome \in TranOutcomes : ExecuteTranStmt(outcome)
    \/ \E outcome \in TranOutcomes : RollbackFailedCommit(outcome)
    \/ DeleteImplicit

NextComplete ==
    \/ \E stmtType \in CompletedTypes, success \in BOOLEAN, tx \in BOOLEAN,
          txImplicit \in BOOLEAN, implicit \in BOOLEAN :
          DoStatementComplete(stmtType, success, tx, txImplicit, implicit)
    \/ \E outcome \in TranOutcomes : ControlRollback(outcome)
    \/ ControlDelete
    \/ \E outcome \in TranOutcomes : ExecuteTranStmt(outcome)
    \/ \E outcome \in TranOutcomes : RollbackFailedCommit(outcome)
    \/ DeleteImplicit

SpecComplete == InitScan /\ [][NextComplete]_vars

\* a call of DoStatementComplete goes on running
SpecCompleteFair == SpecComplete /\ WF_vars(CompleteStep)

(***************************************************************************)
(* SpecSelect: Select.MapExpressions called once with a mapper that fails  *)
(* on the expression bad, for a SELECT with or without ORDER BY, LIMIT and *)
(* OFFSET, whose subresult maps or fails to.                               *)
(***************************************************************************)
\* a nil expression.Expression
NilExpr == "nil"

\* a nil *Order
NilOrder == [nil |-> TRUE, terms |-> <<>>]

\* NewOrder(terms)
NewOrder(terms) == [nil |-> FALSE, terms |-> terms]

SelectExprs == {"x", "y", "bad"}

MAP_ERROR == "cannot map"

SUBRESULT_ERROR == "cannot map the subresult"

\* mapper.Map(expr): the expression mapped and the error
Map(expr) ==
    IF expr = "bad" THEN [expr |-> expr, err |-> MAP_ERROR]
    ELSE [expr |-> "m(" \o expr \o ")", err |-> NoError]

\* SortTerms.MapExpressions(mapper) from term k on: the terms and the error
RECURSIVE SortTermsFrom(_, _)
SortTermsFrom(terms, k) ==
    IF k > Len(terms) THEN [terms |-> terms, err |-> NoError]
    ELSE LET m == Map(terms[k])
             mapped == [terms EXCEPT ![k] = m.expr]
         IN IF m.err # NoError THEN [terms |-> mapped, err |-> m.err]
            ELSE SortTermsFrom(mapped, k + 1)

\* Order.MapExpressions(mapper): the order and the error
OrderMapExpressions(order) ==
    LET t == SortTermsFrom(order.terms, 1)
    IN [order |-> [order EXCEPT !.terms = t.terms], err |-> t.err]

\* Select.MapExpressions(mapper): the statement it leaves and the error.
\* subresult says whether this.subresult.MapExpressions succeeds
SelectMapExpressions(s) ==
    LET o == IF ~s.order.nil THEN OrderMapExpressions(s.order)
             ELSE [order |-> s.order, err |-> NoError]
        l == IF s.limit # NilExpr THEN Map(s.limit) ELSE [expr |-> NilExpr, err |-> o.err]
        f == IF s.offset # NilExpr THEN Map(s.offset) ELSE [expr |-> NilExpr, err |-> l.err]
    IN IF ~s.subresult THEN [select |-> s, err |-> SUBRESULT_ERROR]
       ELSE IF s.limit # NilExpr /\ l.err # NoError
       THEN [select |-> [s EXCEPT !.order = o.order, !.limit = l.expr], err |-> l.err]
       ELSE [select |-> [s EXCEPT !.order = o.order, !.limit = l.expr, !.offset = f.expr],
             err |-> f.err]

OrderClauses ==
    {NilOrder} \cup {NewOrder(t) : t \in UNION {Tuples(SelectExprs, n) : n \in 0..MaxSortTerms}}

\* NewSelect(subresult, order, offset, limit)
NewSelect(subresult, order, offset, lim) ==
    [subresult |-> subresult, order |-> order, offset |-> offset, limit |-> lim]

\* a call of Select.MapExpressions
MapSelect(s) ==
    /\ call' = [fn |-> "Select.MapExpressions", select |-> s,
                result |-> SelectMapExpressions(s)]
    /\ UNCHANGED <<cacheVars, metricVars, autoVars, pending, prime, scan, pool>>

NextSelect ==
    /\ call = NoCall
    /\ \E subresult \in BOOLEAN, order \in OrderClauses,
          offset \in SelectExprs \cup {NilExpr}, lim \in SelectExprs \cup {NilExpr} :
          MapSelect(NewSelect(subresult, order, offset, lim))

SpecSelect == InitScan /\ [][NextSelect]_vars

(***************************************************************************)
(* Properties of the cache under calls made one at a time.                 *)
(***************************************************************************)
\* the lookup GetPrepared(name, no options) made in the current state
Lookup(name) == getPrepared(Cache, name, {}, MaxClock, FALSE)

\* C1: after AddPrepared(p) succeeds GetPrepared(p.Name, no options) returns p;
\* after DeletePrepared(name) succeeds that lookup fails with NoSuchPrepared;
\* DeletePrepared of a name not cached fails with NoSuchPrepared and leaves
\* the cache as it was.
C1_AddGetDelete ==
    /\ [](/\ (res.op = "AddPrepared" /\ res.err = NoError)
               => (Lookup(res.name).err = NoError /\ Lookup(res.name).plan = res.plan)
          /\ (res.op = "DeletePrepared" /\ res.err = NoError)
               => (Lookup(res.name).err = NO_SUCH_PREPARED
                   /\ Lookup(res.name).plan = NilPlan))
    /\ [][\A n \in EntryNames :
            (n \notin Cached(Cache) /\ DeletePrepared(n))
              => (res'.err = NO_SUCH_PREPARED /\ Cache' = Cache)]_vars

\* a plan was added over an entry that held another plan of the same text
C1_Witness ==
    /\ res.op = "AddPrepared" /\ res.err = NoError
    /\ res.name \in {res.before[i] : i \in 1..Len(res.before)}
    /\ res.plan.Ver # schema
    /\ entries[res.name].Prepared = res.plan

\* C2: AddPrepared(p) over an entry of the same name and another text fails
\* with PreparedNameError "duplicate name: <name>", leaves the entry as it was
\* and schedules no broadcast.
C2_DuplicateName ==
    [][\A p \in Plans :
         (/\ p.Name \in Cached(Cache)
          /\ entries[p.Name].Prepared.Text # p.Text
          /\ AddPrepared(p))
           => (/\ res'.err = PREPARED_NAME
               /\ res'.msg = "duplicate name: " \o p.Name
               /\ entries'[p.Name] = entries[p.Name]
               /\ ~res'.bcast)]_vars

\* the refused plan's name holds a verified, used entry of another text
C2_Witness ==
    /\ res.op = "AddPrepared" /\ res.err = PREPARED_NAME
    /\ res.name \in Cached(Cache)
    /\ entries[res.name].populated
    /\ entries[res.name].Uses > 0

\* C3: AddPrepared(p) over an entry of the same name and the same text puts p
\* in the entry and sets populated to false, in the one step, and leaves the
\* entry's Uses, LastUse and timing sums, minima and maxima as they were.
C3_SameTextReplaces ==
    [][\A p \in EntryPlans :
         (/\ p.Name \in Cached(Cache)
          /\ entries[p.Name].Prepared.Text = p.Text
          /\ AddPrepared(p))
           => (/\ res'.err = NoError
               /\ entries'[p.Name] = [entries[p.Name] EXCEPT !.Prepared = p,
                                                            !.populated = FALSE])]_vars

\* a plan replaced the plan of an entry that had been used and timed
C3_Witness ==
    /\ res.op = "AddPrepared" /\ res.err = NoError
    /\ entries[res.name].Prepared = res.plan
    /\ entries[res.name].Prepared.Ver # schema
    /\ ~entries[res.name].populated
    /\ entries[res.name].Uses > 0
    /\ entries[res.name].LastUse > 0
    /\ entries[res.name].ServiceTime > 0
    /\ entries[res.name].MinRequestTime = entries[res.name].MaxRequestTime

\* C4: the cache never holds more entries than its limit, and
\* PreparedsSetLimit(k) on n entries removes max(0, n - k) of them, the least
\* recently used ones.
C4_SizeWithinLimit ==
    /\ [](Len(lru) <= limit /\ Cardinality(Cached(Cache)) = Len(lru))
    /\ [][\A k \in 1..MaxLimit :
            PreparedsSetLimit(k)
              => (/\ Len(lru') = Len(lru) - Max(0, Len(lru) - k)
                  /\ lru' = SubSeq(lru, 1, Len(lru'))
                  /\ \A n \in Cached(Cache') : entries'[n] = entries[n])]_vars

\* a limit of 1 was set on a cache of two or more entries
C4_Witness ==
    /\ res.op = "PreparedsSetLimit"
    /\ Len(res.before) >= 2
    /\ limit = 1
    /\ lru = <<res.before[1]>>

\* the inserts of p1, p2, p3, with tracking, into an empty cache of capacity 2
Scenario5 ==
    LET p(n) == Prepared(n, "SELECT 1", schema, ApiVersion, 0)
        ins(c, n) == DoDecodePrepared(c, n, Encoded(p(n)), TRUE, FALSE, MaxClock, TRUE).c
    IN ins(ins(ins([lru |-> <<>>, entries |-> EmptyMap, limit |-> 2], "p1"), "p2"), "p3")

\* C5: the cache holds the names last inserted or used with tracking, so
\* that an insertion that overflows evicts the least recently inserted or
\* tracked one; with capacity 2, inserting p1, p2, p3 leaves p2 and p3 and a
\* lookup of p1 fails with NoSuchPrepared.
C5_EvictsLeastRecent ==
    /\ lru = recent
    /\ Cached(Scenario5) = {"p2", "p3"}
    /\ getPrepared(Scenario5, "p1", {}, MaxClock, FALSE).err = NO_SUCH_PREPARED
    /\ getPrepared(Scenario5, "p2", {}, MaxClock, FALSE).err = NoError
    /\ getPrepared(Scenario5, "p3", {}, MaxClock, FALSE).err = NoError

\* p3 was inserted with tracking after p1 and p2, at capacity 2
C5_Witness ==
    /\ limit = 2
    /\ res.op = "DecodePrepared" /\ res.err = NoError /\ res.plan.Name = "p3"
    /\ res.before = <<"p2", "p1">>
    /\ lru = <<"p3", "p2">>
    /\ entries["p3"].Uses = 1
    /\ Lookup("p1").err = NO_SUCH_PREPARED

\* Uses and LastUse of every entry, and the order, are as they were
SameUsesAndOrder ==
    /\ lru' = lru
    /\ \A m \in Cached(Cache) :
         /\ entries'[m].Uses = entries[m].Uses
         /\ entries'[m].LastUse = entries[m].LastUse

\* C6: a lookup with TRACK makes the entry the most recently used one and
\* adds one to its Uses; a lookup without TRACK, and RecordPreparedMetrics,
\* leave the order and every entry's Uses and LastUse as they were.
C6_TrackPromotes ==
    [][/\ \A n \in EntryNames, w \in Clock :
            (n \in Cached(Cache) /\ GetPrepared(n, {OPT_TRACK}, w, TRUE))
              => (/\ lru'[1] = n
                  /\ Without(lru', n) = Without(lru, n)
                  /\ entries'[n].Uses = entries[n].Uses + 1
                  /\ \A m \in Cached(Cache) \ {n} : entries'[m] = entries[m])
       /\ \A n \in EntryNames, w \in Clock :
            GetPrepared(n, {}, w, TRUE) => SameUsesAndOrder
       /\ \A p \in EntryPlans :
            RecordPreparedMetrics(p, MaxSample, 1) => SameUsesAndOrder]_vars

\* a tracked lookup brought the least recently used entry to the front
C6_Witness ==
    /\ res.op = "GetPrepared" /\ res.err = NoError
    /\ Len(res.before) = 2 /\ res.before[2] = res.name
    /\ lru = <<res.before[2], res.before[1]>>
    /\ entries[res.name].Uses = 1
    /\ entries[res.name].ServiceTime > 0

(***************************************************************************)
(* Properties of the timing counters under concurrent recording.           *)
(***************************************************************************)
\* C7: as long as an entry is cached, whatever the interleaving of the calls
\* of RecordPreparedMetrics, its MinServiceTime and MinRequestTime never grow
\* and its MaxServiceTime and MaxRequestTime never shrink.
C7_MinMaxMonotonic ==
    [][\A n \in Cached(Cache) \cap Cached(Cache') :
         /\ entries'[n].MinServiceTime <= entries[n].MinServiceTime
         /\ entries'[n].MinRequestTime <= entries[n].MinRequestTime
         /\ entries'[n].MaxServiceTime >= entries[n].MaxServiceTime
         /\ entries'[n].MaxRequestTime >= entries[n].MaxRequestTime]_vars

\* a call holds a value of a counter that another call has replaced since
C7_Witness ==
    \E i \in 1..NumRecorders :
        /\ rec[i].pc \in {"minService", "maxService", "minRequest", "maxRequest"}
        /\ rec[i].old # -1
        /\ entries[Recorded][Field(rec[i].pc)] # rec[i].old
        /\ entries[Recorded].MinServiceTime < entries[Recorded].MaxServiceTime

AllRecorded == \A i \in 1..NumRecorders : rec[i].pc = "idle"

\* C8: once the calls of RecordPreparedMetrics on an entry have all returned,
\* its ServiceTime and RequestTime are the sums of the durations recorded,
\* its minima the smallest and its maxima the largest of them; the first
\* duration recorded on a new entry is its minimum and its maximum.
C8_NoLostUpdate ==
    (AllRecorded /\ sampled.n > 0 /\ Recorded \in Cached(Cache))
      => /\ entries[Recorded].ServiceTime = sampled.ServiceTime
         /\ entries[Recorded].RequestTime = sampled.RequestTime
         /\ entries[Recorded].MinServiceTime = sampled.MinServiceTime
         /\ entries[Recorded].MinRequestTime = sampled.MinRequestTime
         /\ entries[Recorded].MaxServiceTime = sampled.MaxServiceTime
         /\ entries[Recorded].MaxRequestTime = sampled.MaxRequestTime
         /\ sampled.n = 1 => /\ entries[Recorded].MinServiceTime = entries[Recorded].ServiceTime
                             /\ entries[Recorded].MaxServiceTime = entries[Recorded].ServiceTime
                             /\ entries[Recorded].MinRequestTime = entries[Recorded].RequestTime
                             /\ entries[Recorded].MaxRequestTime = entries[Recorded].RequestTime

\* all the calls have returned, having recorded different durations
C8_Witness ==
    /\ AllRecorded
    /\ sampled.n = MaxCalls
    /\ entries[Recorded].MinServiceTime < entries[Recorded].MaxServiceTime
    /\ entries[Recorded].MinRequestTime < entries[Recorded].MaxRequestTime

(***************************************************************************)
(* Properties of the automatic preparation of statements.                  *)
(***************************************************************************)
\* C9: GetAutoPrepareName is a function of the statement's text, the index
\* API version and the feature controls: two calls with equal inputs return
\* equal names, and two calls with the same text whose pairs (index API
\* version, feature controls) differ return different names.
C9_NameOfTextAndRealm ==
    \A i \in 1..Len(named), j \in 1..Len(named) :
       LET a == named[i]
           b == named[j]
           samePair == /\ a.indexApiVersion = b.indexApiVersion
                       /\ a.featureControls = b.featureControls
       IN /\ (a.text = b.text /\ samePair) => a.name = b.name
          /\ (a.text = b.text /\ ~samePair) => a.name # b.name

\* two calls for one text whose realms have the same hexadecimal digits in
\* the same order, (1, 0x23) and (0x12, 3), have returned different names
C9_Witness ==
    /\ Len(named) = 2
    /\ named[1].text = named[2].text
    /\ named[1].indexApiVersion = 1 /\ named[1].featureControls = 35
    /\ named[2].indexApiVersion = 18 /\ named[2].featureControls = 3
    /\ named[1].name # named[2].name

\* the requests for a statement that have been counted by the cache
Counted(text) ==
    {i \in 1..NumRequests : req[i].text = text /\ req[i].pc \in {"check", "done"}}

\* the statements that have been added to the cache
Added ==
    {req[i].name : i \in {j \in 1..NumRequests : req[j].how \in {"inserted", "amended"}}}

\* C10: requests preparing the same parameter-free statement under the same
\* index API version and feature controls, interleaved in any way with no
\* eviction and no delete, leave one entry for the statement, and its Uses
\* counts each request once, the one that inserts the plan, the ones that
\* replace it and the ones that reuse it: at any moment Uses is the number
\* of requests that have got their plan from the entry or put it there, and
\* when all requests have returned it is the number of requests.
C10_OneEntryCountsEachRequest ==
    /\ Cached(Cache) = Added
    /\ \A t \in Texts :
          LET name == DoGetAutoPrepareName(t, ApiVersion, FeatureControls)
              asked == {i \in 1..NumRequests : req[i].text = t}
          IN /\ name \in Cached(Cache) => entries[name].Uses = Cardinality(Counted(t))
             /\ name \notin Cached(Cache) => Counted(t) = {}
             /\ (asked # {} /\ \A i \in 1..NumRequests : req[i].pc = "done")
                  => /\ name \in Cached(Cache)
                     /\ entries[name].Uses = Cardinality(asked)
                     /\ entries[name].Prepared.Text = t

\* all requests were for one statement and have returned: one inserted the
\* plan, one found none either and replaced it, one reused it
C10_Witness ==
    /\ \A i \in 1..NumRequests : req[i].pc = "done" /\ req[i].text = req[1].text
    /\ \E i \in 1..NumRequests : req[i].how = "inserted"
    /\ \E i \in 1..NumRequests : req[i].how = "amended"
    /\ \E i \in 1..NumRequests : req[i].how = "reused"
    /\ Cardinality(Cached(Cache)) = 1
    /\ \A n \in Cached(Cache) : entries[n].Uses = NumRequests

\* the cache is left as it was by the step
CacheUnchanged == lru' = lru /\ entries' = entries /\ limit' = limit

\* C11: AddAutoPreparePlan answers false and leaves the cache as it was when
\* the statement's type is EXPLAIN, EXECUTE, PREPARE or empty or the
\* statement has parameters; PrepareStatement called with arguments or for a
\* subquery calls neither GetAutoPreparePlan nor AddAutoPreparePlan, and
\* leaves the cache as it was unless the statement is an EXECUTE, whose
\* lookup of the prepared statement it names is no automatic preparation.
C11_SkippedStatements ==
    [][/\ res'.op = "AddAutoPreparePlan"
            => \A st \in StatementTypes, k \in 0..1, p \in AutoPlans :
                  (AddAutoPreparePlan(st, k, p, MaxClock) /\ (st # "SELECT" \/ k > 0))
                     => (res'.err = NOT_ADDED /\ CacheUnchanged)
       /\ (res'.op = "PrepareStatement" /\ res'.skipped)
            => /\ res'.calls \cap {"GetAutoPreparePlan", "AddAutoPreparePlan"} = {}
               /\ res'.stmtType # "EXECUTE" => CacheUnchanged]_vars

\* a statement whose plan the cache holds under its automatic name has just
\* been prepared with autoPrepare set for a request that came with
\* arguments or for a subquery: the plan returned is a new one
C11_Witness ==
    /\ res.op = "PrepareStatement"
    /\ res.skipped /\ res.autoPrepare /\ res.stmtType = "SELECT"
    /\ DoGetAutoPrepareName(res.name, ApiVersion, FeatureControls) \in Cached(Cache)
    /\ res.plan.Name = ""
    /\ res.calls = {}

(***************************************************************************)
(* Properties of the plans that arrive encoded.                            *)
(***************************************************************************)
\* C12: a GetPrepared that resolves the name at a peer (no entry here,
\* REMOTE set, the key's host is another node) and succeeds returns the
\* plan fetched and leaves the cache as it was.
C12_RemoteFetchNotCached ==
    [][(res'.op = "GetPreparedOfKey" /\ res'.fetched /\ res'.err = NoError)
          => (res'.plan # NilPlan /\ CacheUnchanged)]_vars

\* C13: DecodePrepared with a declared name and an encoded plan of another
\* name, neither empty, fails with EncodingNameMismatch carrying the
\* declared name, whether or not the plan verifies and whether or not it
\* could be prepared again, and leaves the cache as it was.
C13_NameMismatch ==
    [][res'.op = "DecodePrepared"
         => \A n \in EntryNames, e \in Encodings, d \in BOOLEAN, ok \in BOOLEAN :
               (/\ e.kind = "plan"
                /\ e.plan.Name \notin {"", n}
                /\ DecodePrepared(n, e, FALSE, d, MaxClock, ok))
                  => /\ res'.err = ENCODING_NAME_MISMATCH
                     /\ res'.msg = n
                     /\ res'.plan = NilPlan
                     /\ ~res'.bcast
                     /\ CacheUnchanged]_vars

\* a plan has just been refused for its name while the cache holds the
\* statement of the declared name and the schema has changed since the
\* plans in the cache were built
C13_Witness ==
    /\ res.op = "DecodePrepared"
    /\ res.err = ENCODING_NAME_MISMATCH
    /\ res.name \in Cached(Cache)
    /\ \A n \in Cached(Cache) : entries[n].Prepared.Ver < schema

(***************************************************************************)
(* Properties of the distribution to the peers.                            *)
(***************************************************************************)
\* what a step does to the broadcasts: a step that takes one away is the
\* goroutine of distributePrepared, and leaves the cache and the result of
\* the call alone; a change of the schema schedules nothing; any other step
\* is a call of the interface, and schedules the broadcast of
\* the plan it returns exactly when it is a successful AddPrepared (made by
\* the caller or by a lookup that prepared the statement again) or a
\* successful DecodePrepared with distribute set; unnamed says whether a
\* decoded plan with no name counts as one
BroadcastRule(unnamed) ==
    IF pending'.msgs # pending.msgs /\ pending'.msgs \subseteq pending.msgs
    THEN CacheUnchanged /\ res' = res
    ELSE IF schema' # schema
    THEN pending' = pending
    ELSE /\ pending'.msgs =
              pending.msgs \cup (IF res'.bcast /\ vars' # vars
                                 THEN {[name |-> res'.plan.Name, plan |-> res'.plan]}
                                 ELSE {})
         /\ res'.op = "AddPrepared" => (res'.bcast <=> res'.err = NoError)
         /\ res'.op = "DecodePrepared" =>
               \A n \in {"", Distributed1}, e \in DistributedEncodings,
                  d \in BOOLEAN, ok \in BOOLEAN :
                  DecodePrepared(n, e, FALSE, d, MaxClock, ok)
                     => (res'.bcast <=> (/\ d
                                         /\ res'.err = NoError
                                         /\ (unnamed \/ res'.plan.Name # "")))
         /\ res'.op = "GetPreparedOfKey" => ~res'.bcast
         /\ res'.op = "GetPrepared" =>
               (res'.bcast <=> (/\ res'.name \in Cached(Cache)
                                /\ ~Verify(entries[res'.name].Prepared)
                                /\ res'.err = NoError))
         /\ res'.op \notin {"AddPrepared", "DecodePrepared", "GetPreparedOfKey",
                             "GetPrepared"} => ~res'.bcast

\* C14: a broadcast of the name and the plan is scheduled exactly when
\* AddPrepared succeeds or DecodePrepared with distribute set succeeds for a
\* plan that has a name; it is not scheduled when these calls fail, for a
\* decoded plan with no name, nor for DecodePrepared without distribute (the
\* fetch from a peer); the broadcast itself, failing or not, changes neither
\* the cache nor the result of the call.
C14_BroadcastOfNamedPlans == [][BroadcastRule(FALSE)]_vars

\* C14 as stated: every successful DecodePrepared with distribute set
\* schedules a broadcast.
C14_BroadcastOfAnyPlan == [][BroadcastRule(TRUE)]_vars

\* a plan with no name has just been decoded without error and without a
\* broadcast, while the broadcast of an earlier plan is still to be made
C14_Witness ==
    /\ res.op = "DecodePrepared"
    /\ res.err = NoError
    /\ res.plan.Name = ""
    /\ ~res.bcast
    /\ pending.msgs # {}
    /\ Distributed1 \in Cached(Cache)

\* C15: PreparedsRemotePrime asks each peer for its keys at most once,
\* never asks this node, and asks nobody when this node has no identity;
\* every peer asked before the last one yielded no plan; every key of a
\* peer whose plan DecodePrepared accepts is in the cache right after, with
\* that plan (a plan with a name), and no broadcast is scheduled for it.
C15_PrimeFromOnePeer ==
    /\ [](prime.pc # "off" =>
            /\ \A i \in DOMAIN prime.contacted, j \in DOMAIN prime.contacted :
                  i # j => prime.contacted[i] # prime.contacted[j]
            /\ \A i \in DOMAIN prime.contacted : prime.contacted[i] # prime.thisHost
            /\ prime.thisHost = "" => prime.contacted = <<>>
            /\ \A i \in DOMAIN prime.counts :
                  i < Len(prime.counts) => prime.counts[i] = 0
            /\ (prime.pc = "loop" /\ prime.counts # <<>>)
                  => prime.counts[Len(prime.counts)] = 0
            /\ pending.msgs = {})
    /\ [][(prime.pc = "keys" /\ prime'.pc = "keys" /\ prime'.keys # prime.keys
            /\ prime'.last.err = NoError /\ prime'.last.plan # NilPlan
            /\ prime'.last.plan.Name # "")
             => /\ prime'.last.name \in DOMAIN entries'
                /\ entries'[prime'.last.name].Prepared = prime'.last.plan
                /\ prime'.count = prime.count + 1]_vars

\* the first peer asked yielded no plan, the second yielded two, and the
\* loop has ended with a node left that was not drawn
C15_Witness ==
    /\ prime.pc = "done"
    /\ Len(prime.contacted) = 2
    /\ prime.counts = <<0, 2>>
    /\ prime.left = 1
    /\ Cardinality(Cached(Cache)) = 2

\* the entry but for what a tracked lookup counts
Untracked(ce) == [ce EXCEPT !.Uses = 0, !.LastUse = 0]

\* C16: GetPrepared(name, VERIFY without METACHECK) of a cached entry whose
\* plan does not verify against the datastore returns either a plan that
\* verifies, which is not the stale plan and is the plan the entry holds
\* from then on, or a ReprepareError and no plan; when it fails the entry
\* is as it was but for the use a tracked lookup counts, and without TRACK
\* the whole cache is as it was.
C16_StaleIsPreparedAgain ==
    [][\A n \in EntryNames, o \in {{OPT_VERIFY}, {OPT_VERIFY, OPT_TRACK}},
          ok \in BOOLEAN :
          (/\ res'.op = "GetPrepared"
           /\ n \in Cached(Cache)
           /\ ~Verify(entries[n].Prepared)
           /\ GetPrepared(n, o, MaxClock, ok))
            => \/ /\ res'.err = NoError
                  /\ res'.plan # NilPlan
                  /\ res'.plan.Ver = schema'
                  /\ res'.plan # entries[n].Prepared
                  /\ n \in DOMAIN entries'
                  /\ entries'[n].Prepared = res'.plan
                  /\ ok
               \/ /\ res'.err = REPREPARE
                  /\ res'.plan = NilPlan
                  /\ ~ok
                  /\ DOMAIN entries' = DOMAIN entries
                  /\ \A m \in DOMAIN entries \ {n} : entries'[m] = entries[m]
                  /\ Untracked(entries'[n]) = Untracked(entries[n])
                  /\ limit' = limit
                  /\ OPT_TRACK \notin o => CacheUnchanged]_vars

\* a lookup with VERIFY has found the plan of p1, verified for an earlier
\* schema, stale, and has returned and cached a plan for the current schema
C16_Witness ==
    /\ res.op = "GetPrepared"
    /\ res.name = "p1"
    /\ res.err = NoError
    /\ res.bcast
    /\ schema > 1
    /\ res.plan.Ver = schema
    /\ entries["p1"].Prepared = res.plan
    /\ ~entries["p1"].populated


\* the fields of a plan that reprepare sets from the plan handed to it
Header(p) == <<p.Name, p.Text, p.Type, p.IndexApiVersion, p.FeatureControls>>

\* C17: the plan reprepare returns has the Name, Text, Type, IndexApiVersion
\* and FeatureControls of the plan handed to it, whatever the planner put
\* in the plan it built; so has the plan a verifying lookup returns and
\* caches in place of the stale plan of the entry.
C17_ReprepareKeepsHeader ==
    [][/\ (res'.op = "reprepare" /\ res'.err = NoError)
            => Header(res'.plan) = Header(res'.stale)
       /\ (res'.op = "GetPrepared" /\ res'.bcast /\ schema' = schema)
            => /\ Header(res'.plan) = Header(entries[res'.name].Prepared)
               /\ entries'[res'.name].Prepared = res'.plan]_vars

\* reprepare has returned a plan for a statement whose type, index API
\* version and feature controls are not those of the plan the planner
\* built, and whose plan tree was built for another schema version
C17_Witness ==
    /\ res.op = "reprepare"
    /\ res.err = NoError
    /\ res.stale.Name = "p1"
    /\ res.built.Text # res.stale.Text
    /\ res.built.Type # res.stale.Type
    /\ res.built.IndexApiVersion # res.stale.IndexApiVersion
    /\ res.built.FeatureControls # res.stale.FeatureControls
    /\ res.plan.Ver # res.stale.Ver


(***************************************************************************)
(* Properties of lookups that verify, made at the same time.               *)
(***************************************************************************)
\* request i calls AddPrepared in this step
Adds(i) == req[i].pc = "add" /\ req'[i].pc = "done"

\* C18: requests that prepare the same stale entry again at the same time
\* all return: none waits for another while it prepares or adds, and none
\* fails but by its own reprepare; the cache holds one entry for the name;
\* each AddPrepared of a request succeeds and leaves its plan in the entry,
\* with populated unset and the entry's Uses, LastUse and timing metrics
\* as they were, and nothing but a later AddPrepared or DecodePrepared
\* changes the plan of the entry.
C18_LastAddPreparedWins ==
    /\ [](/\ DOMAIN entries \subseteq {Looked}
          /\ Len(lru) = Cardinality(DOMAIN entries)
          /\ \A k \in DOMAIN lru : lru[k] \in DOMAIN entries
          /\ \A i \in Lookups :
                /\ req[i].pc \in {"reprepare", "add"} =>
                      \A j \in Lookups : req[j].pc \in LockHeld => j # i
                /\ req[i].pc = "done" =>
                      req[i].err \in {NoError, REPREPARE, NO_SUCH_PREPARED})
    /\ [][\A i \in Lookups :
            /\ Adds(i) =>
                  /\ req'[i].err = NoError
                  /\ req'[i].plan = req[i].prepared
                  /\ Looked \in DOMAIN entries
                  /\ entries' = [entries EXCEPT ![Looked].Prepared = req[i].prepared,
                                                ![Looked].populated = FALSE]
                  /\ lru' = <<Looked>>
            /\ (req'[i].pc = "done" /\ req[i].pc # "done" /\ req'[i].err = REPREPARE)
                  => req[i].pc = "reprepare"
            /\ (req'[i].pc = "done" /\ req[i].pc # "done"
                  /\ req'[i].err = NO_SUCH_PREPARED)
                  => req[i].pc = "idle" /\ Looked \notin DOMAIN entries]_vars
    /\ [][(Looked \in DOMAIN entries /\ Looked \in DOMAIN entries'
             /\ entries'[Looked].Prepared # entries[Looked].Prepared)
            => /\ res'.op \in {"AddPrepared", "DecodePrepared"}
               /\ res'.err = NoError
               /\ entries'[Looked].Prepared = res'.plan]_vars
    /\ \A i \in Lookups : (req[i].pc # "idle") ~> (req[i].pc = "done")

\* two requests have found the same plan stale and have each prepared it
\* again, one before and one after a change of the schema; the one that
\* prepared first called AddPrepared last, and its plan is the entry's;
\* the entry has been used and has recorded durations
C18_Witness ==
    /\ req[1].pc = "done" /\ req[2].pc = "done"
    /\ req[1].err = NoError /\ req[2].err = NoError
    /\ ~req[1].good /\ ~req[2].good
    /\ req[1].plan.Ver < req[2].plan.Ver
    /\ res.op = "AddPrepared"
    /\ res.plan = req[1].plan
    /\ entries[Looked].Prepared = req[1].plan
    /\ ~entries[Looked].populated
    /\ entries[Looked].Uses >= 2
    /\ entries[Looked].RequestTime > 0


\* C19: whenever populated comes to be set on the entry, or stays set while
\* the entry's plan changes, the plan the entry then holds is the plan
\* that has just passed Verify: the one the request setting the flag
\* verified under the entry's lock, or the one DecodePrepared verified
\* before inserting it as a new entry.
C19_PopulatedMeansVerified ==
    [][(/\ Looked \in DOMAIN entries'
        /\ entries'[Looked].populated
        /\ \/ Looked \notin DOMAIN entries
           \/ ~entries[Looked].populated
           \/ entries[Looked].Prepared # entries'[Looked].Prepared)
        => \/ \E i \in Lookups :
                 /\ req[i].pc = "populate"
                 /\ req'[i].pc = "unlock"
                 /\ req[i].prepared = entries'[Looked].Prepared
           \/ /\ Looked \notin DOMAIN entries
              /\ res'.op = "DecodePrepared"
              /\ entries'[Looked].Prepared.Ver = schema]_vars


(***************************************************************************)
(* Properties of IntersectScan.                                            *)
(***************************************************************************)
\* the keys emitted
Emitted == {k \in ScanKeys : scan.sent[k] > 0}

\* the keys that every child holds
InAllChildren(keys) ==
    {k \in ScanKeys : \A b \in ChildBitsOf(keys) : k \in KeysOf(keys, b)}

RECURSIVE SumSent(_)
SumSent(ks) ==
    IF ks = {} THEN 0
    ELSE LET k == CHOOSE x \in ks : TRUE
         IN scan.sent[k] + SumSent(ks \ {k})

\* C21 as stated: a scan with a limit L > 0 emits at most L items, those of
\* the final sweep included.
C21_AtMostLimitEmitted ==
    (scan.pc # "off" /\ scan.limit > 0) => SumSent(ScanKeys) <= scan.limit


(***************************************************************************)
(* IntersectScan stopped while it runs.                                    *)
(***************************************************************************)
\* what holds of a scan that has ended after it was stopped
StoppedScanEnded ==
    (scan.pc = "done" /\ scan.stopped) =>
        /\ scan.notified
        /\ \A b \in DOMAIN scan.running : ~scan.running[b]
        /\ scan.closed
        /\ ~scan.swept
        /\ scan.put = scan.taken
        /\ scan.parent

\* C22: a running IntersectScan that is stopped ends: when it has taken the
\* stop its children have been told to stop and have all ended, its channel
\* is closed, nothing was swept, the maps it took from the pools are back
\* and its parent is notified; its body runs once however often RunOnce is
\* called.
C22_StoppedScanTerminates ==
    /\ [](scan.pc # "off" => scan.runs = 1)
    /\ []StoppedScanEnded
    /\ (scan.pc \in {"loop", "wait"} /\ scan.stop) ~> (scan.pc = "done")

\* a scan with maps from the pools was stopped with one of its two
\* children still running and items already emitted, RunOnce was called
\* twice, and the scan has ended
C22_Witness ==
    /\ scan.pc = "done"
    /\ scan.stopped
    /\ scan.n = 1
    /\ scan.taken = 2
    /\ scan.calls = 2
    /\ Emitted # {}


(***************************************************************************)
(* StringValuePool.                                                        *)
(***************************************************************************)
\* C23: every map a StringValuePool holds is empty and Get returns a map
\* with no entries, whatever was Put before; Put of nil or of a map with
\* more entries than the pool's size leaves the pool as it was.
C23_PoolHoldsEmptyMaps ==
    /\ \A i \in DOMAIN pool.maps : pool.maps[i] = {}
    /\ call.fn = "Get" => call.result = {}
    /\ (call.fn = "Put" /\ (call.nil \/ Cardinality(call.s) > pool.size)) =>
           pool.maps = call.before

\* a map with more entries than the pool's size has been put while the
\* pool held a map
C23_Witness ==
    /\ call.fn = "Put"
    /\ ~call.nil
    /\ Cardinality(call.s) > pool.size
    /\ call.before # <<>>


(***************************************************************************)
(* IFINF, IFNAN, IFNANORINF.                                               *)
(***************************************************************************)
\* a NUMBER that the function looks for
Qualifies(fn, a) ==
    /\ TypeOfValue(a) = "NUMBER"
    /\ fn \in {"ifinf", "ifnanorinf"} => ~IsInf(a)
    /\ fn \in {"ifnan", "ifnanorinf"} => ~IsNaN(a)

\* the positions of the operands that qualify
Qualifying(fn, operands) == {i \in DOMAIN operands : Qualifies(fn, operands[i])}

\* the first position of a set of positions
First(S) == CHOOSE i \in S : \A j \in S : i <= j

\* the positions of the operands that are neither MISSING nor a NUMBER
NonNumbers(operands) ==
    {i \in DOMAIN operands : TypeOfValue(operands[i]) \notin {"MISSING", "NUMBER"}}

C25_MissingOnlyWhenAllMissing ==
    (call.fn \in CondFunctions /\ Qualifying(call.fn, call.operands) = {}) =>
        call.result = IF \A i \in DOMAIN call.operands : call.operands[i] = MISSING_VALUE
                      THEN MISSING_VALUE
                      ELSE NULL_VALUE


(***************************************************************************)
(* Plan operators written to JSON and read back.                           *)
(***************************************************************************)
\* numeric fields that are equal, or both without a positive value
SameNumber(x, y) == x = y \/ (x <= 0 /\ y <= 0)

\* structural equality of two operators but for numeric fields without a
\* positive value
RECURSIVE SameOperator(_, _)
SameOperator(o, d) ==
    /\ o.operator = d.operator
    /\ CASE o.operator = "Parallel" ->
               /\ SameNumber(o.maxParallelism, d.maxParallelism)
               /\ SameOperator(o.child, d.child)
         [] o.operator = "NestedLoopNest" ->
               /\ o.outer = d.outer
               /\ o.alias = d.alias
               /\ o.onclause = d.onclause
               /\ o.hintError = d.hintError
               /\ SameNumber(o.cost, d.cost)
               /\ SameNumber(o.cardinality, d.cardinality)
               /\ SameOperator(o.child, d.child)
         [] o.operator = "SendDelete" ->
               /\ o.term = d.term
               /\ o.alias = d.alias
               /\ o.limit = d.limit
               /\ o.keyspace = d.keyspace
         [] OTHER -> TRUE

\* C26 as stated: a Parallel, NestedLoopNest or SendDelete operator read
\* back from its JSON form is structurally equal to the one written, but
\* for numeric fields without a value, and gives the same JSON when it is
\* written again.
C26_RoundTripRestoresOperator ==
    call.fn = "RoundTrip" =>
        /\ SameOperator(call.operator, call.decoded)
        /\ call.again = call.body


(***************************************************************************)
(* buildPrimaryIndex.                                                      *)
(***************************************************************************)
\* the primary indexes of a keyspace, by indexer and position
PrimariesOf(indexers) ==
    {<<i, j>> : i \in DOMAIN indexers, j \in 1..MaxPrimaries + 1} \cap
    {ij \in (1..MaxIndexers + 1) \X (1..MaxPrimaries + 1) :
        ij[1] \in DOMAIN indexers /\ ij[2] \in DOMAIN indexers[ij[1]].states}

\* the last of them in the order of the loops
LastPrimary(indexers) ==
    CHOOSE ij \in PrimariesOf(indexers) :
        \A kl \in PrimariesOf(indexers) :
            kl[1] < ij[1] \/ (kl[1] = ij[1] /\ kl[2] <= ij[2])

\* a call with no primary index among the hints, not forced, on a keyspace
\* whose indexers answer and have no primary index that is ONLINE
NoOnlinePrimaryCase ==
    /\ call.fn = "buildPrimaryIndex"
    /\ ~call.force
    /\ \A k \in DOMAIN call.indexes : ~call.indexes[k].IsPrimary
    /\ \A i \in DOMAIN call.indexers : ~call.indexers[i].er
    /\ \A ij \in PrimariesOf(call.indexers) : call.indexers[ij[1]].states[ij[2]] # "ONLINE"

LTHolds(a, b) == a > NULL /\ b > NULL /\ a < b

\* the index scan of a span with Inclusion NEITHER finds the value v: an
\* index holds no MISSING key, and a bound that is absent does not bound
InSpan(span, v) ==
    /\ v # MISSING
    /\ span.Low # <<>> => span.Low[1] < v
    /\ span.High # <<>> => v < span.High[1]

\* the predicates key < c and c < key on an index whose key is not the
\* predicate itself
KeyLTConstant ==
    /\ call.fn = "VisitLT"
    /\ ~call.keyIsPred
    /\ call.pred.first.kind = "key"
    /\ call.pred.second.kind = "constant"

ConstantLTKey ==
    /\ call.fn = "VisitLT"
    /\ ~call.keyIsPred
    /\ call.pred.first.kind = "constant"
    /\ call.pred.second.kind = "key"

\* C28 as stated: the span of key < c is (NULL, c), exact, and holds
\* exactly the values v with v < c; the span of c < key is (c, no bound),
\* exact, and holds exactly the values v with c < v; another predicate that
\* depends on the key gives the valued span, one that does not gives none.
C28_SpanHoldsExactlyTheValues ==
    /\ KeyLTConstant =>
          /\ call.result = ExactSpan(NULL_EXPRS, <<call.pred.second.value>>)
          /\ \A v \in CollationValues :
                InSpan(call.result, v) <=> LTHolds(v, call.pred.second.value)
    /\ ConstantLTKey =>
          /\ call.result = ExactSpan(<<call.pred.first.value>>, <<>>)
          /\ \A v \in CollationValues :
                InSpan(call.result, v) <=> LTHolds(call.pred.first.value, v)
    /\ (call.fn = "VisitLT" /\ ~KeyLTConstant /\ ~ConstantLTKey) =>
          call.result = IF DependsOnKey(call.pred, call.keyIsPred)
                        THEN VALUED_SPANS ELSE NilSpans


(***************************************************************************)
(* Projection.setAliases.                                                  *)
(***************************************************************************)
\* term i of the list is anonymous: no star, no explicit alias, no alias of
\* its expression
Anonymous(terms, i) == ~terms[i].star /\ terms[i].as = "" /\ terms[i].expr = ""

\* the anonymous terms of the list up to term i
AnonymousUpTo(terms, i) == {j \in 1..i : Anonymous(terms, j)}

\* C29: in a projection the k-th term that is no star term and has neither
\* an explicit alias nor an alias of its expression gets the alias "$k";
\* a star term gets the empty alias and uses no number, an explicit alias
\* goes before the alias of the expression, and no two anonymous terms get
\* the same alias.
C29_DerivedAliasesLeftToRight ==
    call.fn \in {"NewProjection", "NewRawProjection"} =>
        LET in == call.terms
            out == call.result.terms
        IN  /\ Len(out) = Len(in)
            /\ \A i \in DOMAIN in :
                /\ out[i].star = in[i].star
                /\ out[i].as = in[i].as
                /\ out[i].expr = in[i].expr
                /\ in[i].star => out[i].alias = ""
                /\ ~in[i].star /\ in[i].as # "" => out[i].alias = in[i].as
                /\ ~in[i].star /\ in[i].as = "" /\ in[i].expr # ""
                       => out[i].alias = in[i].expr
                /\ Anonymous(in, i) =>
                       out[i].alias = "$" \o ToString(Cardinality(AnonymousUpTo(in, i)))
            /\ \A i, j \in DOMAIN in :
                   Anonymous(in, i) /\ Anonymous(in, j) /\ i # j
                       => out[i].alias # out[j].alias

\* a projection of an anonymous term, a star term and a second anonymous
\* term: the second one is "$2"
C29_Witness ==
    /\ call.fn = "NewProjection"
    /\ Len(call.terms) = 3
    /\ Anonymous(call.terms, 1)
    /\ call.terms[2].star
    /\ Anonymous(call.terms, 3)
    /\ call.result.terms[3].alias = "$2"


(***************************************************************************)
(* preparedCache.GetText.                                                  *)
(***************************************************************************)
\* C30: GetText gives PREPARE FORCE name AS stmt and PREPARE name AS stmt
\* the same text: of the text before the offset it removes one FORCE
\* keyword, in whatever case, and the separator after it, and nothing
\* else; a text with no FORCE before the offset is returned as it is.
C30_ForceIsStripped ==
    call.fn = "GetText" =>
        /\ ~call.result.panic
        /\ call.result.text = GetText(PlainText(call.name, call.stmt),
                                      Len(PREPARE \o call.name)).text
        /\ call.forced => call.result.text = PlainText(call.name, call.stmt)
        /\ Index(ToUpper(Slice(call.text, 0, call.offset)), FORCE) < 0
               => call.result.text = call.text


(***************************************************************************)
(* GetAutoPreparePlan.                                                     *)
(***************************************************************************)
\* the plan GetAutoPreparePlan(n, t, v, f) has just returned
AutoPlanReturned(n, t, v, f) ==
    /\ res'.op = "GetAutoPreparePlan"
    /\ res'.name = n
    /\ GetAutoPreparePlan(n, t, v, f, MaxClock)

\* GetAutoPreparePlan leaves the plan of every entry as it is
AutoNeverReprepares ==
    [][res'.op = "GetAutoPreparePlan"
         => \A n \in Cached(Cache) :
               n \in DOMAIN entries' => entries'[n].Prepared = entries[n].Prepared]_vars

\* a plan GetAutoPreparePlan returns is the cached one and matches the request
AutoPlanMatchesRequest ==
    [][\A n \in AutoNames, t \in Texts, v \in ApiVersions :
          AutoPlanReturned(n, t, v, FeatureControls) /\ res'.plan # NilPlan
             => /\ n \in Cached(Cache)
                /\ res'.plan = entries[n].Prepared
                /\ res'.plan.Text = t
                /\ res'.plan.IndexApiVersion = v
                /\ res'.plan.FeatureControls = FeatureControls]_vars

\* C31: GetAutoPreparePlan never reprepares; it returns a cached plan only
\* when the plan's metadata change counters match the datastore and its
\* text, index API version and feature controls match the request; when
\* the counters do not match it returns nil.
C31_AutoPlanOnlyWhenCountersMatch ==
    /\ AutoNeverReprepares
    /\ AutoPlanMatchesRequest
    /\ [][\A n \in AutoNames, t \in Texts, v \in ApiVersions :
             AutoPlanReturned(n, t, v, FeatureControls)
                => /\ res'.plan # NilPlan => MetadataCheck(res'.plan)
                   /\ (n \in Cached(Cache) /\ ~MetadataCheck(entries[n].Prepared))
                          => res'.plan = NilPlan]_vars


(***************************************************************************)
(* DecodePrepared returning an error.                                      *)
(***************************************************************************)
\* C32: when DecodePrepared returns an error, the cache holds the entries,
\* with their plans and counters, that it held before the call, and no
\* broadcast is scheduled.
C32_DecodeErrorLeavesCache ==
    [][(res'.op = "DecodePrepared" /\ res'.err # NoError
          /\ ~\E m \in pending.msgs : DoRemoteOps(m, TRUE))
          => /\ entries' = entries
             /\ limit' = limit
             /\ ~res'.bcast
             /\ pending' = pending
             /\ res'.plan = NilPlan]_vars

\* a DecodePrepared has been refused because the
\* cache holds the name with another text
C32_Witness ==
    /\ res.op = "DecodePrepared"
    /\ res.err = PREPARED_ENCODING_MISMATCH
    /\ res.name \in Cached(Cache)
    /\ entries[res.name].Prepared.Text = "SELECT 2"
    /\ entries[res.name].Uses = 0


(***************************************************************************)
(* IntersectScan: the first child to end and the final sweep.              *)
(***************************************************************************)
\* the keys the child with bit b has sent
ProducedBy(b) == {scan.keys[b + 1][j] : j \in 1..(scan.next[b] - 1)}

\* the children that have sent an item
Producers == {b \in ChildBitsOf(scan.keys) : scan.next[b] > 1}

\* the children are told to stop once, when the end of the first child is
\* handled
StoppedOnce ==
    scan.pc # "off" =>
       /\ scan.notifies <= 1
       /\ scan.n < scan.nscans => scan.notifies = 1
       /\ scan.n = scan.nscans => scan.notifies = 0

\* the sweep has run only when every child has ended
SweptAfterAllEnded ==
    (scan.pc # "off" /\ scan.swept) =>
       /\ scan.n = 0
       /\ \A b \in ChildBitsOf(scan.keys) : ~scan.running[b]

\* no key is emitted twice
EmittedOnce == scan.pc # "off" => \A k \in ScanKeys : scan.sent[k] <= 1

LimitReached == scan.pc = "done" /\ scan.limit > 0 /\ ~scan.ok /\ scan.count >= scan.limit

\* C34 as stated: when the items sent reach the limit the scan stops
\* forwarding and cancels its children: by the time it has terminated and
\* notified its parent, every child has been told to stop and has ended.
C34_LimitCancelsChildren ==
    LimitReached =>
       /\ scan.parent
       /\ ~scan.swept
       /\ scan.notified
       /\ \A b \in ChildBitsOf(scan.keys) : ~scan.running[b]


(***************************************************************************)
(* buildPrimaryIndex: the index returned.                                  *)
(***************************************************************************)
\* the hinted indexes that are primary
HintedPrimaries(indexes) == {k \in DOMAIN indexes : indexes[k].IsPrimary}

\* the primary index j of indexer i comes before j2 of i2 in the enumeration
Before(i, j, i2, j2) == i < i2 \/ (i = i2 /\ j < j2)

\* the primary index j of indexer i is ONLINE, no primary index before it
\* is, and no indexer up to the i-th fails
IsFirstOnline(indexers, i, j) ==
    /\ i \in DOMAIN indexers
    /\ j \in DOMAIN indexers[i].states
    /\ indexers[i].states[j] = "ONLINE"
    /\ \A i2 \in 1..i : ~indexers[i2].er
    /\ \A i2 \in 1..i : \A j2 \in DOMAIN indexers[i2].states :
          Before(i2, j2, i, j) => indexers[i2].states[j2] # "ONLINE"

ClientAdds ==
    \/ \E p \in LookedPlans : AddPrepared(p)
    \/ \E p \in LookedPlans, ok \in BOOLEAN :
          DecodePrepared(Looked, Encoded(p), FALSE, FALSE, MaxClock, ok)

\* C36: a name that is absent from the cache, which under SpecLookupDelete
\* it is before the first AddPrepared and after a DeletePrepared that
\* succeeded, becomes present only by a client's AddPrepared or
\* DecodePrepared, whatever the lookups in flight do.
C36_DeletedNameStaysAbsent ==
    [][(Looked \notin Cached(Cache) /\ Looked \in DOMAIN entries') => ClientAdds]_vars

\* C36, the part that holds: a lookup that starts after the delete finds
\* nothing and leaves the cache alone.
C36_LookupAfterDeleteAddsNothing ==
    [][\A i \in Lookups :
          (Looked \notin Cached(Cache) /\ req[i].pc = "idle" /\ req'[i].pc # "idle")
             => /\ req'[i].err = NO_SUCH_PREPARED
                /\ entries' = entries]_vars


\* s ends with t
HasSuffix(s, t) ==
    Len(t) <= Len(s) /\ Slice(s, Len(s) - Len(t), Len(s)) = t

\* C37: for every text and every offset from 0 to the length of the text,
\* GetText returns a string, and the string ends with text[offset:].
C37_GetTextReturnsSuffix ==
    call.fn = "GetTextAt" =>
        /\ ~call.result.panic
        /\ HasSuffix(call.result.text, Slice(call.text, call.offset, Len(call.text)))

\* C37, the part that holds: a string that GetText returns ends with
\* text[offset:], and GetText returns one unless the first FORCE before the
\* offset has nothing after it.
C37_SuffixKeptWhenReturned ==
    call.fn = "GetTextAt" =>
        LET prepare == Slice(call.text, 0, call.offset)
            i == Index(ToUpper(prepare), FORCE)
        IN /\ call.result.panic <=> (i >= 0 /\ i + 5 = Len(prepare))
           /\ ~call.result.panic =>
                 HasSuffix(call.result.text, Slice(call.text, call.offset, Len(call.text)))


(***************************************************************************)
(* Context.PrepareStatement and readonly requests.                         *)
(***************************************************************************)
\* C38: a plan that PrepareStatement returns without error to a call with
\* readonly set is read-only, wherever the plan came from: the planner, the
\* auto-prepare cache or, for an EXECUTE, the prepared cache.
C38_ReadonlyRequestGetsReadonlyPlan ==
    (res.op = "PrepareStatement" /\ res.readonly /\ res.err = NoError)
        => Readonly(res.plan)

\* C38, the part that holds: the plans built by the planner and those
\* served from the auto-prepare cache are read-only when readonly is set,
\* and an UPDATE is refused.
C38_PlannedAndAutoPlansAreReadonly ==
    (res.op = "PrepareStatement" /\ res.readonly) =>
        /\ (res.err = NoError /\ res.from # "prepared") => Readonly(res.plan)
        /\ TypeOf(res.name) = "UPDATE" => (res.err = NOT_READONLY /\ res.plan = NilPlan)


(***************************************************************************)
(* Context.DoStatementComplete.                                            *)
(***************************************************************************)
\* the call of DoStatementComplete has returned
Completed == call.fn = "DoStatementComplete" /\ call.pc = "done"

\* the statements run by the call, in order
IssuedStmts == [k \in DOMAIN call.issued |-> call.issued[k].stmt]

OrderFails(s) == \E k \in DOMAIN s.order.terms : s.order.terms[k] = "bad"

\* every mapping of the statement succeeds
AllMappingsSucceed(s) ==
    s.subresult /\ ~OrderFails(s) /\ s.limit # "bad" /\ s.offset # "bad"

\* C40: Select.MapExpressions returns nil exactly when the mappings of the
\* subresult, of every ORDER BY term, of LIMIT and of OFFSET all succeed.
C40_NoMappingErrorLost ==
    call.fn = "Select.MapExpressions" =>
        (call.result.err = NoError <=> AllMappingsSucceed(call.select))

\* C40, the part that holds: the errors of the subresult, of LIMIT and of
\* OFFSET are returned, nil is returned when every mapping succeeds, and
\* the error of an ORDER BY term is returned when the statement has no
\* LIMIT and no OFFSET; with one of them it is returned only if that fails.
C40_ErrorsOfOtherClausesReturned ==
    call.fn = "Select.MapExpressions" =>
        LET s == call.select
        IN /\ AllMappingsSucceed(s) => call.result.err = NoError
           /\ ~s.subresult => call.result.err = SUBRESULT_ERROR
           /\ (s.subresult /\ (s.limit = "bad" \/ s.offset = "bad"))
                 => call.result.err = MAP_ERROR
           /\ (s.subresult /\ OrderFails(s) /\ s.limit = NilExpr /\ s.offset = NilExpr)
                 => call.result.err = MAP_ERROR
           /\ (s.subresult /\ OrderFails(s) /\ s.limit \notin {"bad"} /\ s.offset \notin {"bad"}
                 /\ (s.limit # NilExpr \/ s.offset # NilExpr))
                 => call.result.err = NoError

====
